---- MODULE Spec2Model ----
(***************************************************************************)
(* A model of uk-charts-to-spotify: the match selector of SpotifyAPI       *)
(* (selectBestMatch, calculateSimilarity, levenshteinDistance), the search *)
(* with fallback (searchTracks) and the web server's match-tracks handler  *)
(* running on one shared SpotifyAPI object.                                *)
(*                                                                         *)
(* Strings are sequences of one-character strings (Str("abc") =            *)
(* <<"a","b","c">>), so that substring tests, the stop-word regex and the  *)
(* edit distance are computed character by character as the code does.     *)
(* Scores are exact rationals [num, den] (den > 0): JavaScript computes    *)
(* them in double precision, which this model does not reproduce.          *)
(***************************************************************************)
EXTENDS Integers, Sequences, FiniteSets, TLC

(***************************************************************************)
(* Strings                                                                 *)
(***************************************************************************)

\* A JavaScript string as the sequence of its characters.
Str(s) == [i \in 1..Len(s) |-> SubSeq(s, i, i)]

\* null / undefined, for a value that is a string when present.
Null == <<"null">>

\* null / undefined, for a value that is an array of records when present.
NoTracks == <<[null |-> TRUE]>>

\* A string in a condition: null, undefined and '' are falsy.
truthy(s) == s # Null /\ s # <<>>

UpperCase == Str("ABCDEFGHIJKLMNOPQRSTUVWXYZ")
LowerCase == Str("abcdefghijklmnopqrstuvwxyz")
Digits == Str("0123456789")

Range(f) == {f[i] : i \in DOMAIN f}

\* String.prototype.toLowerCase, on the ASCII letters.
LowerOf == [c \in Range(UpperCase) |-> LowerCase[CHOOSE i \in 1..26 : UpperCase[i] = c]]

toLowerCaseChar(c) == IF c \in DOMAIN LowerOf THEN LowerOf[c] ELSE c

toLowerCase(s) == [i \in 1..Len(s) |-> toLowerCaseChar(s[i])]

\* String.prototype.toUpperCase, on the ASCII letters.
UpperOf == [c \in Range(LowerCase) |-> UpperCase[CHOOSE i \in 1..26 : LowerCase[i] = c]]

toUpperCaseChar(c) == IF c \in DOMAIN UpperOf THEN UpperOf[c] ELSE c

toUpperCase(s) == [i \in 1..Len(s) |-> toUpperCaseChar(s[i])]

\* The regex class \w: [A-Za-z0-9_].
WordChars == Range(UpperCase) \cup Range(LowerCase) \cup Range(Digits) \cup {"_"}

IsWordChar(c) == c \in WordChars

\* White space as String.prototype.trim sees it (the characters the model uses).
IsSpace(c) == c \in {" ", "\t"}

\* String.prototype.includes.
includes(s, sub) ==
  \E i \in 1..(Len(s) - Len(sub) + 1) : SubSeq(s, i, i + Len(sub) - 1) = sub

\* String.prototype.trim.
trim(s) ==
  IF \A i \in 1..Len(s) : IsSpace(s[i]) THEN <<>>
  ELSE LET first == CHOOSE i \in 1..Len(s) :
                      ~IsSpace(s[i]) /\ \A k \in 1..(i - 1) : IsSpace(s[k])
           last == CHOOSE i \in 1..Len(s) :
                      ~IsSpace(s[i]) /\ \A k \in (i + 1)..Len(s) : IsSpace(s[k])
       IN SubSeq(s, first, last)

\* The words of /\b(the|a|an|and|or|but|in|on|at|to|for|of|with|by)\b/g.
StopWords ==
  {Str("the"), Str("a"), Str("an"), Str("and"), Str("or"), Str("but"), Str("in"),
   Str("on"), Str("at"), Str("to"), Str("for"), Str("of"), Str("with"), Str("by")}

\* The end of the run of word characters that starts at i.
RECURSIVE WordEnd(_, _)
WordEnd(s, i) ==
  IF i < Len(s) /\ IsWordChar(s[i + 1]) THEN WordEnd(s, i + 1) ELSE i

\* str.replace(/\b(the|a|...)\b/g, ''), from position i on.  Every alternative is
\* made of word characters and stands between two \b, so a match is exactly a
\* maximal run of word characters that equals one of the words.
RECURSIVE removeStopWordsFrom(_, _)
removeStopWordsFrom(s, i) ==
  IF i > Len(s) THEN <<>>
  ELSE IF ~IsWordChar(s[i]) THEN <<s[i]>> \o removeStopWordsFrom(s, i + 1)
  ELSE LET j == WordEnd(s, i)
           word == SubSeq(s, i, j)
       IN (IF word \in StopWords THEN <<>> ELSE word) \o removeStopWordsFrom(s, j + 1)

removeStopWords(s) == removeStopWordsFrom(s, 1)

(***************************************************************************)
(* SpotifyAPI.levenshteinDistance and SpotifyAPI.calculateSimilarity       *)
(***************************************************************************)

Min3(a, b, c) == IF a <= b /\ a <= c THEN a ELSE IF b <= c THEN b ELSE c

\* Row i (i >= 1) of the matrix, cell by cell: row[j + 1] is matrix[i][j].
RECURSIVE levenshteinRow(_, _, _, _, _)
levenshteinRow(str1, str2, i, prev, row) ==
  IF Len(row) = Len(str1) + 1 THEN row
  ELSE LET j == Len(row)
           cell == IF str2[i] = str1[j]
                     THEN prev[j]
                     ELSE Min3(prev[j] + 1, row[j] + 1, prev[j + 1] + 1)
       IN levenshteinRow(str1, str2, i, prev, Append(row, cell))

RECURSIVE levenshteinRows(_, _, _, _)
levenshteinRows(str1, str2, i, prev) ==
  IF i > Len(str2) THEN prev
  ELSE LET row == levenshteinRow(str1, str2, i, prev, <<i>>)
       IN IF Len(row) = Len(str1) + 1
            THEN levenshteinRows(str1, str2, i + 1, row)
            ELSE <<>>

\* The difference of the two lengths, in place of the distance.
lengthDifference(str1, str2) ==
  IF Len(str1) >= Len(str2) THEN Len(str1) - Len(str2) ELSE Len(str2) - Len(str1)

levenshteinDistance(str1, str2) ==
  levenshteinRows(str1, str2, 1, [j \in 1..(Len(str1) + 1) |-> j - 1])[Len(str1) + 1]

\* The last lines with 0 for two empty strings.
similarityOfEmptyZero(longer, shorter) ==
  IF Len(longer) = 0 THEN [n |-> 0, d |-> 1]
  ELSE [n |-> Len(longer) - levenshteinDistance(longer, shorter), d |-> Len(longer)]

\* The last lines with the distance set against the length of the shorter string.
similarityOfShorter(longer, shorter) ==
  IF Len(shorter) = 0 THEN [n |-> 1, d |-> 1]
  ELSE [n |-> Len(shorter) - levenshteinDistance(longer, shorter), d |-> Len(shorter)]

\* The last lines of calculateSimilarity: 1.0 for two empty strings, else
\* (longer.length - editDistance) / longer.length, as the exact fraction n / d.
similarityOf(longer, shorter) ==
  IF Len(longer) = 0 THEN [n |-> 1, d |-> 1]
  ELSE [n |-> Len(longer) - levenshteinDistance(longer, shorter), d |-> Len(longer)]

\* The first cleaned string taken for the longer one whatever its length.
similarityOfCleanedFirst(clean1, clean2) == similarityOf(clean1, clean2)

\* longer and shorter, chosen among the two cleaned strings.
similarityOfCleaned(clean1, clean2) ==
  IF Len(clean1) > Len(clean2) THEN similarityOf(clean1, clean2) ELSE similarityOf(clean2, clean1)

calculateSimilarity(str1, str2) ==
  similarityOfCleaned(trim(removeStopWords(str1)), trim(removeStopWords(str2)))

(***************************************************************************)
(* SpotifyAPI.selectBestMatch                                              *)
(*                                                                         *)
(* A track (one mapped search result) is a record                          *)
(*   [name, artist, popularity, album_type, explicit, album_release_date]  *)
(* with name, artist and album_release_date strings (the date may be       *)
(* Null), album_type one of "album", "single", "compilation".              *)
(***************************************************************************)

TitleWeight == 20
ArtistWeight == 15
AlbumBonus == 10
SingleBonus == 5
NonExplicitBonus == 5
RecencyBonus == 3
RecencyWindow == 10
CoverPenalty == 30
RemixPenalty == 20

\* str.split('-')[0]: the part before the first '-'.
splitFirst(s) ==
  IF \E i \in 1..Len(s) : s[i] = "-"
    THEN SubSeq(s, 1, (CHOOSE i \in 1..Len(s) : s[i] = "-" /\ \A k \in 1..(i - 1) : s[k] # "-") - 1)
    ELSE s

DigitValues == [c \in Range(Digits) |-> (CHOOSE i \in 1..10 : Digits[i] = c) - 1]

DigitValue(c) == DigitValues[c]

RECURSIVE digitsValue(_, _, _)
digitsValue(s, i, acc) ==
  IF i > Len(s) \/ s[i] \notin Range(Digits) THEN acc
  ELSE digitsValue(s, i + 1, acc * 10 + DigitValue(s[i]))

\* parseInt on an unsigned decimal: leading white space is skipped, the leading
\* digits are read, and the result is NaN when there is none.
parseInt(s) ==
  LET t == IF \A i \in 1..Len(s) : IsSpace(s[i]) THEN <<>>
           ELSE SubSeq(s, CHOOSE i \in 1..Len(s) :
                            ~IsSpace(s[i]) /\ \A k \in 1..(i - 1) : IsSpace(s[k]), Len(s))
  IN IF Len(t) = 0 \/ t[1] \notin Range(Digits)
       THEN [nan |-> TRUE, val |-> 0]
       ELSE [nan |-> FALSE, val |-> digitsValue(t, 1, 0)]

\* score += track.popularity || 0
popularityTerm(track) == track.popularity

\* The comparison without the lower-casing of its two arguments.
titleSimilarityCaseSensitive(track, originalTitle) ==
  calculateSimilarity(originalTitle, track.name)

titleSimilarity(track, originalTitle) ==
  calculateSimilarity(toLowerCase(originalTitle), toLowerCase(track.name))

artistSimilarity(track, originalArtist) ==
  calculateSimilarity(toLowerCase(originalArtist), toLowerCase(track.artist))

albumTypeTerm(track) ==
  IF track.album_type = "album" THEN AlbumBonus
  ELSE IF track.album_type = "single" THEN SingleBonus
  ELSE 0

explicitTerm(track) == IF ~track.explicit THEN NonExplicitBonus ELSE 0

\* The recency term with a window that ends a year early.
recencyTermStrict(track, currentYear) ==
  IF track.album_release_date = Null \/ track.album_release_date = <<>> THEN 0
  ELSE LET releaseYear == parseInt(splitFirst(track.album_release_date))
       IN IF ~releaseYear.nan /\ releaseYear.val > currentYear - RecencyWindow
            THEN RecencyBonus
            ELSE 0

\* The date is falsy when it is null or the empty string.
recencyTerm(track, currentYear) ==
  IF track.album_release_date = Null \/ track.album_release_date = <<>> THEN 0
  ELSE LET releaseYear == parseInt(splitFirst(track.album_release_date))
       IN IF ~releaseYear.nan /\ releaseYear.val >= currentYear - RecencyWindow
            THEN RecencyBonus
            ELSE 0

\* The words the two penalties look for.
Cover == Str("cover")
Tribute == Str("tribute")
Karaoke == Str("karaoke")
Instrumental == Str("instrumental")
Party == Str("party")
Dance == Str("dance")
Remix == Str("remix")
Mix == Str("mix")

\* The first penalty with "karaoke" left out of the words looked for in the name.
coverPenaltyWithoutKaraoke(track) ==
  LET titleLower == toLowerCase(track.name)
      artistLower == toLowerCase(track.artist)
  IN \/ includes(titleLower, Cover) \/ includes(titleLower, Tribute)
     \/ includes(titleLower, Instrumental)
     \/ includes(artistLower, Cover) \/ includes(artistLower, Tribute)

\* The condition of the first penalty (score -= 30).
coverPenaltyApplies(track) ==
  LET titleLower == toLowerCase(track.name)
      artistLower == toLowerCase(track.artist)
  IN \/ includes(titleLower, Cover) \/ includes(titleLower, Tribute)
     \/ includes(titleLower, Karaoke) \/ includes(titleLower, Instrumental)
     \/ includes(artistLower, Cover) \/ includes(artistLower, Tribute)

\* The second penalty as the else branch of the first one.
remixPenaltyUnlessCover(track) ==
  /\ ~coverPenaltyApplies(track)
  /\ LET titleLower == toLowerCase(track.name)
     IN \/ includes(titleLower, Party) \/ includes(titleLower, Dance)
        \/ includes(titleLower, Remix) \/ includes(titleLower, Mix)

\* The condition of the second penalty (score -= 20).
remixPenaltyApplies(track) ==
  LET titleLower == toLowerCase(track.name)
  IN \/ includes(titleLower, Party) \/ includes(titleLower, Dance)
     \/ includes(titleLower, Remix) \/ includes(titleLower, Mix)

\* One element of scoredTracks: {index, score, track}, the score as the fraction
\* num / den, summed from the two similarities ts and as, the two penalties and the
\* whole-numbered terms. The terms the score was summed from are kept beside it.
scoredTrack(track, index, ts, as, cover, remix, whole, currentYear) ==
  [index |-> index,
   score |-> [num |-> (whole - cover - remix) * ts.d * as.d + TitleWeight * ts.n * as.d
                      + ArtistWeight * as.n * ts.d,
              den |-> ts.d * as.d],
   track |-> track,
   terms |-> [popularity |-> popularityTerm(track), title |-> ts, artist |-> as,
              album |-> albumTypeTerm(track), explicit |-> explicitTerm(track),
              recency |-> recencyTerm(track, currentYear),
              cover |-> cover, remix |-> remix]]

\* The body of the map callback.
scoreTrack(track, index, originalTitle, originalArtist, currentYear) ==
  scoredTrack(track, index,
              titleSimilarity(track, originalTitle),
              artistSimilarity(track, originalArtist),
              IF coverPenaltyApplies(track) THEN CoverPenalty ELSE 0,
              IF remixPenaltyApplies(track) THEN RemixPenalty ELSE 0,
              popularityTerm(track) + albumTypeTerm(track) + explicitTerm(track)
                + recencyTerm(track, currentYear),
              currentYear)

\* tracks.map((track, index) => ...)
scoreTracks(tracks, originalTitle, originalArtist, currentYear) ==
  [i \in 1..Len(tracks) |->
     scoreTrack(tracks[i], i - 1, originalTitle, originalArtist, currentYear)]

\* The sign of the comparator (a, b) => a.score - b.score, lowest score first.
compareScoresAscending(a, b) ==
  LET diff == a.score.num * b.score.den - b.score.num * a.score.den
  IN IF diff < 0 THEN -1 ELSE IF diff > 0 THEN 1 ELSE 0

\* The sign of the comparator (a, b) => b.score - a.score.
compareScores(a, b) ==
  LET diff == b.score.num * a.score.den - a.score.num * b.score.den
  IN IF diff < 0 THEN -1 ELSE IF diff > 0 THEN 1 ELSE 0

\* A comparator under which equal scores change places.
sortInsertUnstable(sorted, x) ==
  LET keep == {k \in 1..Len(sorted) : compareScores(sorted[k], x) < 0}
      k == IF keep = {} THEN 0 ELSE CHOOSE m \in keep : \A o \in keep : o <= m
  IN SubSeq(sorted, 1, k) \o <<x>> \o SubSeq(sorted, k + 1, Len(sorted))

\* One step of Array.prototype.sort, a stable insertion sort: x goes behind the
\* last element that the comparator does not put after it.
sortInsert(sorted, x) ==
  LET keep == {k \in 1..Len(sorted) : compareScores(sorted[k], x) <= 0}
      k == IF keep = {} THEN 0 ELSE CHOOSE m \in keep : \A o \in keep : o <= m
  IN SubSeq(sorted, 1, k) \o <<x>> \o SubSeq(sorted, k + 1, Len(sorted))

RECURSIVE sortFrom(_, _, _)
sortFrom(arr, i, sorted) ==
  IF i > Len(arr) THEN sorted
  ELSE sortFrom(arr, i + 1, sortInsert(sorted, arr[i]))

\* scoredTracks.sort((a, b) => b.score - a.score)
sortByScore(arr) == sortFrom(arr, 1, <<>>)

\* The fast path without its second line.
fastPathEmptyOnly(tracks) == tracks = NoTracks \/ Len(tracks) = 0

\* The fast path: if (!tracks || tracks.length === 0) return 0;
\*                if (tracks.length === 1) return 0;
fastPath(tracks) == tracks = NoTracks \/ Len(tracks) = 0 \/ Len(tracks) = 1

\* originalTitle.toLowerCase() or originalArtist.toLowerCase() of a missing value
\* raises a TypeError; it is reached only behind the fast path.
selectBestMatchThrows(tracks, originalTitle, originalArtist) ==
  ~fastPath(tracks) /\ (originalTitle = Null \/ originalArtist = Null)

\* The scoredTracks array of one call: empty when the call returns before the map.
scoredTracksOf(tracks, originalTitle, originalArtist, currentYear) ==
  IF fastPath(tracks) THEN <<>>
  ELSE scoreTracks(tracks, originalTitle, originalArtist, currentYear)

\* The index that bestMatch.index holds, given the scoredTracks of the call.
bestMatchIndex(scoredTracks) ==
  IF scoredTracks = <<>> THEN 0 ELSE sortByScore(scoredTracks)[1].index

selectBestMatch(tracks, originalTitle, originalArtist, currentYear) ==
  bestMatchIndex(scoredTracksOf(tracks, originalTitle, originalArtist, currentYear))

\* The caller's array after a call that sorted it in place by score.
tracksSortedInPlace(tracks, scoredTracks) ==
  IF scoredTracks = <<>> THEN tracks
  ELSE [i \in 1..Len(tracks) |-> sortByScore(scoredTracks)[i].track]

\* The caller's array after the call: tracks.map builds the scoredTracks array anew,
\* scoredTracks.sort reorders that array, and no field of a track is assigned.
tracksAfterCall(tracks, scoredTracks) == tracks

(***************************************************************************)
(* State                                                                   *)
(***************************************************************************)

VARIABLES
  \* One call of selectBestMatch: its arguments, the clock, and what it did.
  selTracks,      \* the tracks argument (NoTracks when missing)
  selTitle,       \* originalTitle
  selArtist,      \* originalArtist
  selPc,          \* "call" before the call, "returned" after it, "again" after a second one
  selScored,      \* the scoredTracks array the call built (<<>> if it built none)
  selResult,      \* the index returned
  \* The web server.
  currentYear,    \* new Date().getFullYear()
  session,        \* session id -> req.session.spotifyAccessToken
  apiAccessToken, \* spotifyAPI.accessToken of the one shared SpotifyAPI object
  requests,       \* request slot -> the state of the handler serving it
  \* One run of LiveChartScraper.scrapeYearChart.
  scrPage,        \* what the chart page holds, as each extraction method sees it
  scrLimit,       \* the limit argument
  scrPc,          \* the approach about to be tried, "returned" or "failed"
  scrChart,       \* the chart returned
  scrTried,       \* the approaches invoked so far, in order
  \* One call of calculateSimilarity or of levenshteinDistance.
  simA,           \* the first string
  simB,           \* the second string
  simC,           \* a third string, to compare distances
  simPc,          \* the function about to be called; "returned" or "measured" after it
  simOut,         \* what the calls returned
  \* One request passing through refreshSpotifyTokenIfNeeded.
  rfSession,      \* req.session
  rfNow,          \* Date.now(), in minutes
  rfPc,           \* "start", "refreshing" while the fetch is out, "handler" after next()
  rfTrace         \* the fetches made and the calls of next(), in order

selVars == <<selTracks, selTitle, selArtist, selPc, selScored, selResult>>
serverVars == <<session, apiAccessToken, requests>>
scrapeVars == <<scrPage, scrLimit, scrPc, scrChart, scrTried>>
simVars == <<simA, simB, simC, simPc, simOut>>
refreshVars == <<rfSession, rfNow, rfPc, rfTrace>>
vars == <<selVars, currentYear, serverVars, scrapeVars, simVars, refreshVars>>

(***************************************************************************)
(* Inputs                                                                  *)
(***************************************************************************)

\* The longest candidate list handed to selectBestMatch.
MaxTracks == 2

CurrentYears == {2021, 2026}

\* (popularity, album_type, explicit, album_release_date) of the candidates.
TrackProfiles ==
  {[popularity |-> 70, album_type |-> "single", explicit |-> FALSE,
    album_release_date |-> Str("2011-07-05")],
   [popularity |-> 70, album_type |-> "album", explicit |-> TRUE,
    album_release_date |-> Null],
   [popularity |-> 40, album_type |-> "compilation", explicit |-> FALSE,
    album_release_date |-> Str("2015-01-01")]}

\* (name, artist) of the candidates.
TrackNames ==
  {[name |-> Str("Song"), artist |-> Str("Band")],
   [name |-> Str("The Song"), artist |-> Str("The Band")],
   [name |-> Str("Song Karaoke"), artist |-> Str("Band")],
   [name |-> Str("Song Live 99"), artist |-> Str("Band")],
   [name |-> Str("Song"), artist |-> Str("Karaoke Band")],
   [name |-> Str("Song Remix"), artist |-> Str("Tribute Band")],
   [name |-> Str("Zzzz"), artist |-> Str("Qqqq")]}

TrackPool ==
  {[name |-> n.name, artist |-> n.artist, popularity |-> p.popularity,
    album_type |-> p.album_type, explicit |-> p.explicit,
    album_release_date |-> p.album_release_date] : n \in TrackNames, p \in TrackProfiles}

\* (title, artist) of the chart entries, upper-cased as the scraper leaves them.
ChartNames ==
  {[title |-> Str("SONG"), artist |-> Str("BAND")],
   [title |-> Str("ZZZZ"), artist |-> Str("QQQQ")]}

SeqsUpTo(S, n) == UNION {[1..k -> S] : k \in 0..n}

(***************************************************************************)
(* One call of selectBestMatch (specification SpecSel)                     *)
(***************************************************************************)

ServerIdle ==
  /\ session = <<>>
  /\ apiAccessToken = "null"
  /\ requests = <<>>

ScrapeIdle ==
  /\ scrPage = <<>>
  /\ scrLimit = 0
  /\ scrPc = "off"
  /\ scrChart = <<>>
  /\ scrTried = <<>>

SimIdle ==
  /\ simA = <<>>
  /\ simB = <<>>
  /\ simC = <<>>
  /\ simPc = "off"
  /\ simOut = <<>>

RefreshIdle ==
  /\ rfSession = <<>>
  /\ rfNow = 0
  /\ rfPc = "off"
  /\ rfTrace = <<>>

InitSel ==
  /\ selTracks \in SeqsUpTo(TrackPool, MaxTracks) \cup {NoTracks}
  /\ \E c \in ChartNames : selTitle = c.title /\ selArtist = c.artist
  /\ currentYear \in CurrentYears
  /\ selPc = "call"
  /\ selScored = <<>>
  /\ selResult = 0
  /\ ServerIdle
  /\ ScrapeIdle
  /\ SimIdle
  /\ RefreshIdle

SelectBestMatchCall ==
  /\ selPc = "call"
  /\ selScored' = scoredTracksOf(selTracks, selTitle, selArtist, currentYear)
  /\ selResult' = bestMatchIndex(selScored')
  /\ selTracks' = tracksAfterCall(selTracks, selScored')
  /\ selPc' = "returned"
  /\ UNCHANGED <<selTitle, selArtist, currentYear, serverVars, scrapeVars, simVars, refreshVars>>

\* The caller calls selectBestMatch once more with the array the first call left.
SelectBestMatchAgain ==
  /\ selPc = "returned"
  /\ selScored' = scoredTracksOf(selTracks, selTitle, selArtist, currentYear)
  /\ selResult' = bestMatchIndex(selScored')
  /\ selTracks' = tracksAfterCall(selTracks, selScored')
  /\ selPc' = "again"
  /\ UNCHANGED <<selTitle, selArtist, currentYear, serverVars, scrapeVars, simVars, refreshVars>>

NextSel == SelectBestMatchCall \/ SelectBestMatchAgain

SpecSel == InitSel /\ [][NextSel]_vars

(***************************************************************************)
(* SpotifyAPI.searchTracks                                                 *)
(***************************************************************************)

\* The limit match-tracks passes to searchTracks, and searchMultipleTracks by default.
SearchLimit == 5

NoToken == "null"

Quote == "\""
TrackPrefix == Str("track:") \o <<Quote>>
ArtistInfix == <<Quote>> \o Str(" artist:") \o <<Quote>>

\* The position of the first '"' at or behind i, 0 when there is none.
nextQuote(q, i) ==
  IF \E k \in i..Len(q) : q[k] = Quote
    THEN CHOOSE k \in i..Len(q) : q[k] = Quote /\ \A m \in i..(k - 1) : q[m] # Quote
    ELSE 0

\* The pattern stands in q at position p.
standsAt(q, p, pattern) ==
  p + Len(pattern) - 1 <= Len(q) /\ SubSeq(q, p, p + Len(pattern) - 1) = pattern

\* A match of /track:"([^"]*)" artist:"([^"]*)"/ that starts at p.
structuredAt(q, p) ==
  LET t1 == p + Len(TrackPrefix)
      t2 == nextQuote(q, t1)
      a1 == t2 + Len(ArtistInfix)
      a2 == nextQuote(q, a1)
  IN IF /\ standsAt(q, p, TrackPrefix)
        /\ t2 # 0
        /\ standsAt(q, t2, ArtistInfix)
        /\ a2 # 0
       THEN [found |-> TRUE, title |-> SubSeq(q, t1, t2 - 1),
             artist |-> SubSeq(q, a1, a2 - 1), last |-> a2]
       ELSE [found |-> FALSE, title |-> <<>>, artist |-> <<>>, last |-> 0]

\* The replacement with the quotes of the two fields left in place.
simpleQueryQuoted(query) ==
  IF \E p \in 1..Len(query) : structuredAt(query, p).found
    THEN LET p == CHOOSE x \in 1..Len(query) :
                    /\ structuredAt(query, x).found
                    /\ \A y \in 1..(x - 1) : ~structuredAt(query, y).found
             m == structuredAt(query, p)
         IN SubSeq(query, 1, p - 1) \o <<Quote>> \o m.title \o <<Quote, " ", Quote>>
              \o m.artist \o <<Quote>> \o SubSeq(query, m.last + 1, Len(query))
    ELSE query

\* query.replace(/track:"([^"]*)" artist:"([^"]*)"/, '$1 $2'): the first match is
\* replaced, and a query without a match is left as it is.
simpleQuery(query) ==
  IF \E p \in 1..Len(query) : structuredAt(query, p).found
    THEN LET p == CHOOSE x \in 1..Len(query) :
                    /\ structuredAt(query, x).found
                    /\ \A y \in 1..(x - 1) : ~structuredAt(query, y).found
             m == structuredAt(query, p)
         IN SubSeq(query, 1, p - 1) \o m.title \o <<" ">> \o m.artist
              \o SubSeq(query, m.last + 1, Len(query))
    ELSE query

\* getHeaders throws when the object holds no access token; otherwise the
\* Authorization header carries the token the object holds at that moment.
getHeadersThrows(accessToken) == accessToken = NoToken

\* track.artists[0].name of a track without artists raises a TypeError.
mapTracksThrows(items) == \E k \in 1..Len(items) : Len(items[k].artists) = 0

\* tracks.map(track => ({...})): the fields the matching reads, and the uri.
mapTracks(items) ==
  [k \in 1..Len(items) |->
     [uri |-> items[k].uri,
      name |-> items[k].name,
      artist |-> items[k].artists[1].name,
      artists |-> [a \in 1..Len(items[k].artists) |-> items[k].artists[a].name],
      popularity |-> items[k].popularity,
      explicit |-> items[k].explicit,
      album_release_date |-> items[k].album.release_date,
      album_type |-> items[k].album.album_type]]

\* What searchTracks returns once a response with these items is in: the mapped
\* tracks, or [] from the catch block when the mapping throws.
tracksOfResponse(items) == IF mapTracksThrows(items) THEN <<>> ELSE mapTracks(items)

\* One axios.get of searchTracks, as issued: its response is not in yet.
searchCall(kind, query, limit, accessToken) ==
  [kind |-> kind, q |-> query, limit |-> limit, authorization |-> accessToken,
   answered |-> FALSE, response |-> [ok |-> FALSE, items |-> <<>>]]

\* A search whose rejection is not thrown, so that it reads as a search without items.
searchThrowsNever(response) == FALSE

\* await axios.get(...) rejects (network, auth, rate limit): the catch block runs.
searchThrows(response) == ~response.ok

\* if (tracks.length > 0)
hasResults(response) == Len(response.items) > 0

\* What searchTracks returns when this response ends it.
returnedTracks(response) ==
  IF searchThrows(response) \/ ~hasResults(response) THEN <<>>
  ELSE tracksOfResponse(response.items)

(***************************************************************************)
(* The server: POST /api/match-tracks, and SpotifyAPI.searchMultipleTracks *)
(***************************************************************************)

\* The longest list of chart entries of a request served alone.
MaxBatch == 3

\* The longest list of chart entries of a request served beside another one.
MaxEntries == 2

Reqs == {1, 2}
Sessions == {"sA", "sB", "anon"}

\* The limit of the search that fetch-more-matches runs.
MoreLimit == 10

\* selectedMatch: null
NullIndex == -1
NoError == "(none)"
\* The message of the TypeError raised by toLowerCase() of a missing value.
TypeErrorMessage == "Cannot read properties of undefined (reading 'toLowerCase')"

\* What a chart entry of the request body looks like.
EntryKinds == {"plain", "structured", "untitled"}

chartEntry(kind, position) ==
  [position |-> position,
   title |-> IF kind = "untitled" THEN Null ELSE Str("SONG"),
   artist |-> Str("BAND"),
   searchQuery |-> IF kind = "structured"
                     THEN TrackPrefix \o Str("SONG") \o ArtistInfix \o Str("BAND") \o <<Quote>>
                     ELSE Str("SONG BAND")]

Batches ==
  {[k \in 1..Len(kinds) |-> chartEntry(kinds[k], k)] : kinds \in SeqsUpTo(EntryKinds, MaxBatch)}

\* The request bodies of fetch-more-matches: entries with the position 0 too.
MoreBodies == {chartEntry(kind, position) : kind \in EntryKinds, position \in {0, 1}}

\* The request bodies of the requests served side by side: plain entries only.
SmallBatches == {[k \in 1..n |-> chartEntry("plain", k)] : n \in 0..MaxEntries}

\* The items of a search response.
spotifyItem(uri, name, artist, popularity, albumType, explicit, releaseDate) ==
  [uri |-> uri, name |-> Str(name), artists |-> <<[name |-> Str(artist)]>>,
   popularity |-> popularity, explicit |-> explicit,
   album |-> [release_date |-> releaseDate, album_type |-> albumType]]

ItemExact == spotifyItem("spotify:track:1", "Song", "Band", 70, "single", FALSE, Str("2011-07-05"))
ItemKaraoke ==
  spotifyItem("spotify:track:2", "Song - Karaoke", "Karaoke Band", 40, "compilation", FALSE,
              Str("2015-01-01"))

\* What the Spotify search answers: an error (network, auth, rate limit) or items.
SearchResponses ==
  {[ok |-> FALSE, items |-> <<>>],
   [ok |-> TRUE, items |-> <<>>],
   [ok |-> TRUE, items |-> <<ItemExact>>],
   [ok |-> TRUE, items |-> <<ItemKaraoke, ItemExact>>]}

\* The answers to the requests served side by side: an error, no item, one item.
ShortResponses == {response \in SearchResponses : Len(response.items) <= 1}

\* No response has been sent.
NoResponse == [sent |-> FALSE]

IdleRequest ==
  [pc |-> "idle", kind |-> "none", sid |-> "none", ownToken |-> NoToken, body |-> <<>>,
   tracks |-> <<>>, i |-> 0, matches |-> <<>>, log |-> <<>>, status |-> 0,
   response |-> NoResponse]

\* The limit every caller passes to searchTracks, were it the one of match-tracks.
searchLimitOfBatch(kind) == SearchLimit

\* The limit the caller passes to searchTracks.
searchLimitOf(kind) == IF kind = "fetch-more-matches" THEN MoreLimit ELSE SearchLimit

\* The body of the response of fetch-more-matches: the tracks as searchTracks
\* returned them, and the position of the request.
moreResponse(position, additionalTracks) ==
  [success |-> TRUE, additionalMatches |-> additionalTracks, position |-> position]

\* A handler that lets every session in.
notAuthenticatedNever(sessionToken) == FALSE

\* !req.session.spotifyAccessToken
notAuthenticated(sessionToken) == sessionToken = NoToken

\* The try block's record with selectBestMatch called whatever the number of tracks.
matchRecordUnguarded(track, spotifyTracks, year) ==
  [position |-> track.position, title |-> track.title, artist |-> track.artist,
   searchQuery |-> track.searchQuery, spotifyMatches |-> spotifyTracks,
   selectedMatch |-> IF selectBestMatchThrows(spotifyTracks, track.title, track.artist)
                       THEN NullIndex
                       ELSE selectBestMatch(spotifyTracks, track.title, track.artist, year),
   hasMatch |-> Len(spotifyTracks) > 0, error |-> NoError]

\* The try block's record with hasMatch read off the truthiness of the index.
matchRecordTruthyIndex(track, spotifyTracks, year) ==
  IF Len(spotifyTracks) > 0 /\ selectBestMatchThrows(spotifyTracks, track.title, track.artist)
    THEN [position |-> track.position, title |-> track.title, artist |-> track.artist,
          searchQuery |-> track.searchQuery, spotifyMatches |-> <<>>,
          selectedMatch |-> NullIndex, hasMatch |-> FALSE, error |-> TypeErrorMessage]
    ELSE [position |-> track.position, title |-> track.title, artist |-> track.artist,
          searchQuery |-> track.searchQuery, spotifyMatches |-> spotifyTracks,
          selectedMatch |-> IF Len(spotifyTracks) > 0
                              THEN selectBestMatch(spotifyTracks, track.title, track.artist, year)
                              ELSE NullIndex,
          hasMatch |-> /\ Len(spotifyTracks) > 0
                       /\ selectBestMatch(spotifyTracks, track.title, track.artist, year) > 0,
          error |-> NoError]

\* The record match-tracks pushes for a track, given what searchTracks returned:
\* the try block's record, or the catch block's when selectBestMatch throws.
matchRecord(track, spotifyTracks, year) ==
  IF Len(spotifyTracks) > 0 /\ selectBestMatchThrows(spotifyTracks, track.title, track.artist)
    THEN [position |-> track.position, title |-> track.title, artist |-> track.artist,
          searchQuery |-> track.searchQuery, spotifyMatches |-> <<>>,
          selectedMatch |-> NullIndex, hasMatch |-> FALSE, error |-> TypeErrorMessage]
    ELSE [position |-> track.position, title |-> track.title, artist |-> track.artist,
          searchQuery |-> track.searchQuery, spotifyMatches |-> spotifyTracks,
          selectedMatch |-> IF Len(spotifyTracks) > 0
                              THEN selectBestMatch(spotifyTracks, track.title, track.artist, year)
                              ELSE NullIndex,
          hasMatch |-> Len(spotifyTracks) > 0, error |-> NoError]

\* What searchMultipleTracks does with the tracks of an entry: the index it reads
\* the chosen track with, kept with the tracks. It has no try block: a throwing
\* selectBestMatch rejects the whole call.
foundRecord(entry, tracks, year) ==
  [position |-> entry.position, title |-> entry.title, artist |-> entry.artist,
   searchQuery |-> entry.searchQuery, spotifyMatches |-> tracks,
   selectedMatch |-> IF Len(tracks) > 0
                       THEN selectBestMatch(tracks, entry.title, entry.artist, year)
                       ELSE NullIndex,
   hasMatch |-> Len(tracks) > 0, error |-> NoError]

\* The response to the last call of the entry in hand is in.
withResponse(rq, response) ==
  [rq EXCEPT !.log[rq.i][Len(rq.log[rq.i])].answered = TRUE,
             !.log[rq.i][Len(rq.log[rq.i])].response = response]

\* match-tracks without the try block around an entry: a throwing selectBestMatch
\* reaches the handler's outer catch block, which answers 500.
recordEntryAborting(rq, tracks, year) ==
  IF rq.kind = "fetch-more-matches"
    THEN [rq EXCEPT !.pc = "done", !.status = 200,
                    !.response = moreResponse(rq.tracks[rq.i].position, tracks)]
  ELSE IF Len(tracks) > 0 /\ selectBestMatchThrows(tracks, rq.tracks[rq.i].title, rq.tracks[rq.i].artist)
    THEN [rq EXCEPT !.pc = "done", !.status = 500]
  ELSE IF rq.kind = "match-tracks"
    THEN [rq EXCEPT !.matches = Append(@, matchRecord(rq.tracks[rq.i], tracks, year)),
                    !.i = @ + 1, !.pc = "next"]
  ELSE [rq EXCEPT !.matches = Append(@, foundRecord(rq.tracks[rq.i], tracks, year)),
                  !.pc = "delay"]

\* searchTracks has returned these tracks for the entry in hand, and the caller
\* runs on to its next await: match-tracks pushes its record and turns to the next
\* entry ("next"); searchMultipleTracks keeps the index it reads the chosen track
\* with and pauses ("delay"), or is rejected by a throwing selectBestMatch.
recordEntry(rq, tracks, year) ==
  IF rq.kind = "match-tracks"
    THEN [rq EXCEPT !.matches = Append(@, matchRecord(rq.tracks[rq.i], tracks, year)),
                    !.i = @ + 1, !.pc = "next"]
  ELSE IF rq.kind = "fetch-more-matches"
    THEN [rq EXCEPT !.pc = "done", !.status = 200,
                    !.response = moreResponse(rq.tracks[rq.i].position, tracks)]
  ELSE IF Len(tracks) > 0 /\ selectBestMatchThrows(tracks, rq.tracks[rq.i].title, rq.tracks[rq.i].artist)
    THEN [rq EXCEPT !.pc = "done", !.status = 500]
  ELSE [rq EXCEPT !.matches = Append(@, foundRecord(rq.tracks[rq.i], tracks, year)),
                  !.pc = "delay"]

\* The count of all the records, matched or not.
matchedCountAll(matches) == Len(matches)

\* matches.filter(m => m.hasMatch).length
matchedCount(matches) == Cardinality({k \in 1..Len(matches) : matches[k].hasMatch})

\* The body of the response of match-tracks.
matchTracksResponse(tracks, matches) ==
  [success |-> TRUE, matches |-> matches, totalTracks |-> Len(tracks),
   matchedTracks |-> matchedCount(matches)]

\* The list is through: match-tracks answers 200 with its records, and the promise
\* of searchMultipleTracks resolves.
listDone(rq) ==
  IF rq.kind = "match-tracks"
    THEN [rq EXCEPT !.pc = "done", !.status = 200,
                    !.response = matchTracksResponse(rq.tracks, rq.matches)]
    ELSE [rq EXCEPT !.pc = "done", !.status = 200]

\* The loop over the entries from entry rq.i on, up to the next await: the end of
\* the list answers 200; searchTracks sends the primary call with the token the
\* object holds, or getHeaders throws and its catch block returns [] at once.
RECURSIVE startEntries(_, _, _)
startEntries(rq, accessToken, year) ==
  IF rq.i > Len(rq.tracks) THEN listDone(rq)
  ELSE IF getHeadersThrows(accessToken)
    THEN LET after == recordEntry([rq EXCEPT !.log = Append(@, <<>>)], <<>>, year)
         IN IF after.pc = "next" THEN startEntries(after, accessToken, year) ELSE after
  ELSE [rq EXCEPT !.pc = "primary",
                  !.log = Append(@, <<searchCall("primary", rq.tracks[rq.i].searchQuery,
                                                 searchLimitOf(rq.kind), accessToken)>>)]

entryDone(rq, tracks, accessToken, year) ==
  LET after == recordEntry(rq, tracks, year)
  IN IF after.pc = "next" THEN startEntries(after, accessToken, year) ELSE after

\* POST /api/match-tracks, from the request to the first await. The lists of the
\* model are shorter than batchSize (10), so the handler's pause between two
\* batches of ten entries never falls due.
MatchTracksBegin(r, sid, tracks) ==
  /\ requests[r].pc = "idle"
  /\ LET rq == [IdleRequest EXCEPT !.kind = "match-tracks", !.sid = sid,
                                   !.ownToken = session[sid], !.body = tracks]
     IN IF notAuthenticated(session[sid])
          THEN /\ requests' = [requests EXCEPT ![r] = [rq EXCEPT !.pc = "done", !.status = 401]]
               /\ UNCHANGED apiAccessToken
        ELSE IF tracks = NoTracks
          THEN /\ requests' = [requests EXCEPT ![r] = [rq EXCEPT !.pc = "done", !.status = 400]]
               /\ UNCHANGED apiAccessToken
        ELSE /\ apiAccessToken' = session[sid]
             /\ requests' = [requests EXCEPT ![r] =
                  startEntries([rq EXCEPT !.tracks = tracks, !.i = 1], apiAccessToken', currentYear)]
  /\ UNCHANGED <<currentYear, session>>

MatchTracksStart(r, sid, tracks) ==
  /\ MatchTracksBegin(r, sid, tracks)
  /\ UNCHANGED <<selVars, scrapeVars, simVars, refreshVars>>

\* !position || !title || !artist || !searchQuery
missingParameters(body) ==
  \/ body.position = 0
  \/ ~truthy(body.title)
  \/ ~truthy(body.artist)
  \/ ~truthy(body.searchQuery)

\* POST /api/fetch-more-matches, from the request to the first await: the search
\* runs with the token the shared object holds, which this handler does not set.
FetchMoreMatchesStart(r, sid, body) ==
  /\ requests[r].pc = "idle"
  /\ LET rq == [IdleRequest EXCEPT !.kind = "fetch-more-matches", !.sid = sid,
                                   !.ownToken = session[sid], !.body = <<body>>]
     IN requests' = [requests EXCEPT ![r] =
          IF notAuthenticated(session[sid]) THEN [rq EXCEPT !.pc = "done", !.status = 401]
          ELSE IF missingParameters(body) THEN [rq EXCEPT !.pc = "done", !.status = 400]
          ELSE startEntries([rq EXCEPT !.tracks = <<body>>, !.i = 1], apiAccessToken,
                            currentYear)]
  /\ UNCHANGED <<selVars, currentYear, session, apiAccessToken, scrapeVars, simVars, refreshVars>>

\* spotifyAPI.searchMultipleTracks(chartData), from the call to the first await.
SearchMultipleTracksStart(r, chartData) ==
  /\ requests[r].pc = "idle"
  /\ requests' = [requests EXCEPT ![r] =
       startEntries([IdleRequest EXCEPT !.kind = "searchMultipleTracks", !.tracks = chartData,
                                        !.i = 1],
                    apiAccessToken, currentYear)]
  /\ UNCHANGED <<selVars, currentYear, session, apiAccessToken, scrapeVars, simVars, refreshVars>>

\* The response to the primary call is in: an error returns [], items return the
\* mapped tracks, and no items send the fallback call with the token the object
\* holds now (or return [] when getHeaders throws).
PrimaryResponse(r, response) ==
  /\ requests[r].pc = "primary"
  /\ LET rq == withResponse(requests[r], response)
     IN requests' = [requests EXCEPT ![r] =
          IF ~searchThrows(response) /\ ~hasResults(response)
               /\ ~getHeadersThrows(apiAccessToken)
            THEN [rq EXCEPT
                    !.pc = "fallback",
                    !.log[rq.i] = Append(@, searchCall("fallback",
                                                       simpleQuery(rq.tracks[rq.i].searchQuery),
                                                       rq.log[rq.i][1].limit, apiAccessToken))]
            ELSE entryDone(rq, returnedTracks(response), apiAccessToken, currentYear)]
  /\ UNCHANGED <<selVars, currentYear, session, apiAccessToken, scrapeVars, simVars, refreshVars>>

\* The response to the fallback call is in.
FallbackResponse(r, response) ==
  /\ requests[r].pc = "fallback"
  /\ requests' = [requests EXCEPT ![r] =
       entryDone(withResponse(requests[r], response), returnedTracks(response),
                 apiAccessToken, currentYear)]
  /\ UNCHANGED <<selVars, currentYear, session, apiAccessToken, scrapeVars, simVars, refreshVars>>

\* searchMultipleTracks: the 100 ms pause behind an entry is over.
DelayElapsed(r) ==
  /\ requests[r].pc = "delay"
  /\ requests' = [requests EXCEPT ![r] =
       startEntries([requests[r] EXCEPT !.i = @ + 1], apiAccessToken, currentYear)]
  /\ UNCHANGED <<selVars, currentYear, session, apiAccessToken, scrapeVars, simVars, refreshVars>>

\* The response has been sent (or the promise settled): the slot serves anew.
RequestEnd(r) ==
  /\ requests[r].pc = "done"
  /\ requests' = [requests EXCEPT ![r] = IdleRequest]
  /\ UNCHANGED <<selVars, currentYear, session, apiAccessToken, scrapeVars, simVars, refreshVars>>

SelIdle ==
  /\ selTracks = <<>>
  /\ selTitle = <<>>
  /\ selArtist = <<>>
  /\ selPc = "off"
  /\ selScored = <<>>
  /\ selResult = 0

Init ==
  /\ SelIdle
  /\ ScrapeIdle
  /\ SimIdle
  /\ RefreshIdle
  /\ currentYear = 2026
  /\ session = [sid \in Sessions |->
                  IF sid = "sA" THEN "tokenA" ELSE IF sid = "sB" THEN "tokenB" ELSE NoToken]
  /\ apiAccessToken = NoToken
  /\ requests = [r \in Reqs |-> IdleRequest]

\* Two requests of match-tracks served side by side, interleaved at their awaits.
Next ==
  \/ \E r \in Reqs, sid \in Sessions, tracks \in SmallBatches \cup {NoTracks} :
       MatchTracksStart(r, sid, tracks)
  \/ \E r \in Reqs, response \in ShortResponses : PrimaryResponse(r, response)
  \/ \E r \in Reqs, response \in ShortResponses : FallbackResponse(r, response)
  \/ \E r \in Reqs : RequestEnd(r)

Spec == Init /\ [][Next]_vars

\* One request of match-tracks or of fetch-more-matches, or one call of
\* searchMultipleTracks, at a time.
NextBatch ==
  \/ \E sid \in Sessions, tracks \in Batches \cup {NoTracks} : MatchTracksStart(1, sid, tracks)
  \/ \E chartData \in Batches : SearchMultipleTracksStart(1, chartData)
  \/ \E sid \in Sessions, body \in MoreBodies : FetchMoreMatchesStart(1, sid, body)
  \/ \E response \in SearchResponses : PrimaryResponse(1, response)
  \/ \E response \in SearchResponses : FallbackResponse(1, response)
  \/ DelayElapsed(1)
  \/ RequestEnd(1)

SpecBatch == Init /\ [][NextBatch]_vars

(***************************************************************************)
(* LiveChartScraper.scrapeYearChart and its three approaches               *)
(*                                                                         *)
(* A number is the record [nan, val] that parseInt gives, so that NaN can  *)
(* be a position. The text of an element holds no line break.              *)
(***************************************************************************)

\* The longest list of items or elements a page view holds.
MaxItems == 2

Num(v) == [nan |-> FALSE, val |-> v]

\* A number in a condition: NaN and 0 are falsy.
truthyNumber(n) == ~n.nan /\ n.val # 0

\* String.prototype.startsWith
startsWith(s, prefix) == Len(s) >= Len(prefix) /\ SubSeq(s, 1, Len(prefix)) = prefix

\* String.prototype.substring(n)
substring(s, n) == SubSeq(s, n + 1, Len(s))

\* `${title} ${artist}`
joinQuery(title, artist) == title \o <<" ">> \o artist

\* One entry of a chart.
scrapedTrack(position, title, artist, searchQuery) ==
  [position |-> position, title |-> title, artist |-> artist, searchQuery |-> searchQuery]

\* The sign of the comparator (a, b) => a.position - b.position; a difference that
\* is NaN counts as 0.
comparePositions(a, b) ==
  IF a.position.nan \/ b.position.nan THEN 0
  ELSE IF a.position.val < b.position.val THEN -1
  ELSE IF a.position.val > b.position.val THEN 1
  ELSE 0

\* One step of tracks.sort(...), a stable insertion sort.
positionInsert(sorted, x) ==
  LET keep == {k \in 1..Len(sorted) : comparePositions(sorted[k], x) <= 0}
      k == IF keep = {} THEN 0 ELSE CHOOSE m \in keep : \A o \in keep : o <= m
  IN SubSeq(sorted, 1, k) \o <<x>> \o SubSeq(sorted, k + 1, Len(sorted))

RECURSIVE positionSortFrom(_, _, _)
positionSortFrom(arr, i, sorted) ==
  IF i > Len(arr) THEN sorted
  ELSE positionSortFrom(arr, i + 1, positionInsert(sorted, arr[i]))

\* tracks.sort((a, b) => a.position - b.position)
sortByPosition(tracks) == positionSortFrom(tracks, 1, <<>>)

Min2(a, b) == IF a <= b THEN a ELSE b

\* extractFromJSONData, the loop over the parsed chartItems from item i on (i counts
\* from 1 here, so that the position i + 1 of the code is i).
RECURSIVE jsonTracksFrom(_, _, _, _)
jsonTracksFrom(items, limit, i, tracks) ==
  IF i > Min2(Len(items), limit) THEN tracks
  ELSE IF truthy(items[i].title) /\ truthy(items[i].artist)
    THEN jsonTracksFrom(items, limit, i + 1,
           Append(tracks,
                  scrapedTrack(Num(i), toUpperCase(trim(items[i].title)),
                               toUpperCase(trim(items[i].artist)),
                               joinQuery(trim(items[i].title), trim(items[i].artist)))))
  ELSE jsonTracksFrom(items, limit, i + 1, tracks)

extractFromJSONData(items, limit) == jsonTracksFrom(items, limit, 1, <<>>)

\* The en dash (U+2013), one character of a string.
EnDash == "en dash"

\* The characters of the class that holds the hyphen and the en dash.
Dashes == {"-", EnDash}

\* The length of the run of white space that starts at i.
RECURSIVE spacesAt(_, _)
spacesAt(s, i) == IF i <= Len(s) /\ IsSpace(s[i]) THEN 1 + spacesAt(s, i + 1) ELSE 0

\* The length of the run of digits that starts at i.
RECURSIVE digitsAt(_, _)
digitsAt(s, i) == IF i <= Len(s) /\ s[i] \in Range(Digits) THEN 1 + digitsAt(s, i + 1) ELSE 0

\* Where the dash stands when (.+?) takes the t characters from q on: behind the
\* white space that follows them. The rest \s*[dash]\s*(.+)$ matches when a dash
\* stands there with at least one character behind it.
dashBehind(s, q, t) == q + t + spacesAt(s, q + t)

titleFits(s, q, t) == dashBehind(s, q, t) < Len(s) /\ s[dashBehind(s, q, t)] \in Dashes

\* The way /^(\d+)\.?\s*(.+?)\s*[dash]\s*(.+)$/ can match s with d digits in group 1
\* and group 2 starting at q: (.+?) is lazy and takes the fewest characters.
lineAttempt(s, d, q) ==
  [d |-> d, q |-> q,
   t |-> IF \E t \in 1..(Len(s) - q) : titleFits(s, q, t)
           THEN CHOOSE t \in 1..(Len(s) - q) :
                  titleFits(s, q, t) /\ \A u \in 1..(t - 1) : ~titleFits(s, q, u)
           ELSE 0]

\* All the ways the head ^(\d+)\.?\s* can match: d digits, the dot when it stands
\* there, and some of the white space behind.
lineAttempts(s) ==
  {lineAttempt(s, d, q) : d \in 1..digitsAt(s, 1), q \in 1..Len(s)}

headFits(s, a) ==
  \/ a.q \in (a.d + 1)..(a.d + 1 + spacesAt(s, a.d + 1))
  \/ /\ a.d + 1 <= Len(s) /\ s[a.d + 1] = "."
     /\ a.q \in (a.d + 2)..(a.d + 2 + spacesAt(s, a.d + 2))

\* The quantifiers of the head are greedy: the match found is the one with the
\* most digits, then the one that starts group 2 last.
preferred(a, b) == a.d > b.d \/ (a.d = b.d /\ a.q >= b.q)

\* text.match(...): the three groups, or no match.
matchChartLine(s) ==
  LET fits == {a \in lineAttempts(s) : headFits(s, a) /\ a.t > 0}
  IN IF fits = {} THEN [found |-> FALSE, position |-> <<>>, title |-> <<>>, artist |-> <<>>]
     ELSE LET a == CHOOSE x \in fits : \A y \in fits : preferred(x, y)
              dash == dashBehind(s, a.q, a.t)
          IN [found |-> TRUE,
              position |-> SubSeq(s, 1, a.d),
              title |-> SubSeq(s, a.q, a.q + a.t - 1),
              artist |-> SubSeq(s, Min2(dash + 1 + spacesAt(s, dash + 1), Len(s)), Len(s))]

\* The body of scrapeWithPuppeteer's loop for the element with this text: the
\* track it pushes, as a list of one or none.
puppeteerPush(position, title, artist, limit) ==
  IF truthyNumber(position) /\ truthy(title) /\ truthy(artist) /\ position.val <= limit
    THEN <<scrapedTrack(position, title, artist, joinQuery(title, artist))>>
    ELSE <<>>

puppeteerMatched(match, limit) ==
  IF match.found
    THEN puppeteerPush(parseInt(match.position), toUpperCase(trim(match.title)),
                       toUpperCase(trim(match.artist)), limit)
    ELSE <<>>

puppeteerTrack(textContent, limit) ==
  puppeteerMatched(matchChartLine(trim(textContent)), limit)

RECURSIVE puppeteerTracksFrom(_, _, _, _)
puppeteerTracksFrom(chartItems, limit, i, tracks) ==
  IF i > Min2(Len(chartItems), limit) THEN tracks
  ELSE puppeteerTracksFrom(chartItems, limit, i + 1,
                           tracks \o puppeteerTrack(chartItems[i], limit))

\* scrapeWithPuppeteer, from the elements the selectors found.
scrapeWithPuppeteer(chartItems, limit) ==
  sortByPosition(puppeteerTracksFrom(chartItems, limit, 1, <<>>))

\* The title with the prefixes "New" and "RE" taken off, one after the other.
withoutNew(title) ==
  IF startsWith(title, Str("New")) THEN trim(substring(title, 3)) ELSE title
withoutRE(title) ==
  IF startsWith(title, Str("RE")) THEN trim(substring(title, 2)) ELSE title

\* The track scrapeWithCheerio pushes for these three texts, as a list of one or none.
cheerioPush(position, title, artist) ==
  IF truthy(position) /\ truthy(title) /\ truthy(artist)
    THEN <<scrapedTrack(parseInt(position), toUpperCase(title), toUpperCase(artist),
                        joinQuery(toUpperCase(title), toUpperCase(artist)))>>
    ELSE <<>>

\* The body of chartItems.each for one element [position, title, artist], the
\* texts of its .position strong, .chart-name span and .chart-artist span.
cheerioTrack(element) ==
  cheerioPush(trim(element.position), withoutRE(withoutNew(trim(element.title))),
              trim(element.artist))

RECURSIVE cheerioTracksFrom(_, _, _, _)
cheerioTracksFrom(chartItems, limit, i, tracks) ==
  IF i > Min2(Len(chartItems), limit) THEN tracks
  ELSE cheerioTracksFrom(chartItems, limit, i + 1, tracks \o cheerioTrack(chartItems[i]))

\* scrapeWithCheerio, from the elements the selectors found.
scrapeWithCheerio(chartItems, limit) ==
  sortByPosition(cheerioTracksFrom(chartItems, limit, 1, <<>>))

\* One approach with the chart returned whenever the approach did not throw.
afterApproachCompleted(completed, chartData, next) ==
  IF completed
    THEN [pc |-> "returned", chart |-> chartData]
    ELSE [pc |-> next, chart |-> <<>>]

\* What one approach of scrapeYearChart leaves: the chart is returned when the
\* approach did not throw and found a song, and the next approach is tried otherwise.
afterApproach(completed, chartData, next) ==
  IF completed /\ Len(chartData) > 0
    THEN [pc |-> "returned", chart |-> chartData]
    ELSE [pc |-> next, chart |-> <<>>]

\* The pages the chart site may serve. A page is what the three approaches read
\* off it: the parsed chartItems of its script tag, the texts of the elements the
\* selectors of the rendered page find, the three texts of each element the selectors
\* of the fetched page find, and whether the browser launches and the page can be
\* fetched.
JsonItems ==
  {[title |-> Str(" Song "), artist |-> Str("Band")],
   [title |-> <<>>, artist |-> Str("Band")]}

RenderedTexts ==
  {Str(" 1. Song - Band"), <<"2", " ", "Z", "z", EnDash, "Q", "q">>, Str("Top 40")}

FetchedElements ==
  {[position |-> Str("1"), title |-> Str("Song"), artist |-> Str("Band")],
   [position |-> Str(" 2 "), title |-> Str("New Zz"), artist |-> Str("Qq")],
   [position |-> <<>>, title |-> Str("Advert"), artist |-> <<>>]}

Pages ==
  [items : SeqsUpTo(JsonItems, MaxItems),
   texts : SeqsUpTo(RenderedTexts, MaxItems),
   elements : SeqsUpTo(FetchedElements, MaxItems),
   launches : BOOLEAN,
   fetches : BOOLEAN]

\* Approach 1 of scrapeYearChart: extractFromJSONData.
ScrapeJSON ==
  /\ scrPc = "json"
  /\ scrTried' = Append(scrTried, "json")
  /\ LET after == afterApproach(scrPage.launches,
                                extractFromJSONData(scrPage.items, scrLimit), "puppeteer")
     IN scrPc' = after.pc /\ scrChart' = after.chart
  /\ UNCHANGED <<scrPage, scrLimit, selVars, currentYear, serverVars, simVars, refreshVars>>

\* Approach 2: scrapeWithPuppeteer.
ScrapePuppeteer ==
  /\ scrPc = "puppeteer"
  /\ scrTried' = Append(scrTried, "puppeteer")
  /\ LET after == afterApproach(scrPage.launches,
                                scrapeWithPuppeteer(scrPage.texts, scrLimit), "cheerio")
     IN scrPc' = after.pc /\ scrChart' = after.chart
  /\ UNCHANGED <<scrPage, scrLimit, selVars, currentYear, serverVars, simVars, refreshVars>>

\* Approach 3: scrapeWithCheerio; behind it 'All scraping methods failed' is thrown.
ScrapeCheerio ==
  /\ scrPc = "cheerio"
  /\ scrTried' = Append(scrTried, "cheerio")
  /\ LET after == afterApproach(scrPage.fetches,
                                scrapeWithCheerio(scrPage.elements, scrLimit), "failed")
     IN scrPc' = after.pc /\ scrChart' = after.chart
  /\ UNCHANGED <<scrPage, scrLimit, selVars, currentYear, serverVars, simVars, refreshVars>>

\* The chart that scrapeYearChart returned is posted to /api/match-tracks as it is.
PostScrapedChart(sid) ==
  /\ scrPc = "returned"
  /\ MatchTracksBegin(1, sid, scrChart)
  /\ scrPc' = "posted"
  /\ scrPage' = <<>>
  /\ scrLimit' = 0
  /\ scrTried' = <<>>
  /\ UNCHANGED <<scrChart, selVars, simVars, refreshVars>>

InitScrape ==
  /\ SelIdle
  /\ currentYear = 2026
  /\ session = [sid \in Sessions |->
                  IF sid = "sA" THEN "tokenA" ELSE IF sid = "sB" THEN "tokenB" ELSE NoToken]
  /\ apiAccessToken = NoToken
  /\ requests = [r \in Reqs |-> IdleRequest]
  /\ scrPage \in Pages
  /\ scrLimit \in 1..MaxItems
  /\ scrPc = "json"
  /\ scrChart = <<>>
  /\ scrTried = <<>>
  /\ SimIdle
  /\ RefreshIdle

\* A chart is scraped and matched by one request of match-tracks.
NextScrape ==
  \/ ScrapeJSON
  \/ ScrapePuppeteer
  \/ ScrapeCheerio
  \/ \E sid \in Sessions : PostScrapedChart(sid)
  \/ \E response \in ShortResponses : PrimaryResponse(1, response)
  \/ \E response \in ShortResponses : FallbackResponse(1, response)

SpecScrape == InitScrape /\ [][NextScrape]_vars

(***************************************************************************)
(* searchTracks on structured and on plain queries (specification          *)
(* SpecQuery): one entry per request of match-tracks                       *)
(***************************************************************************)

\* A chart entry whose search query is the structured or the plain form of its
\* title and artist, as the client sends it.
queryEntry(title, artist, structured) ==
  [position |-> 1, title |-> title, artist |-> artist,
   searchQuery |-> IF structured
                     THEN TrackPrefix \o title \o ArtistInfix \o artist \o <<Quote>>
                     ELSE title \o <<" ">> \o artist]

\* The request bodies: titles and artists of one and of two words, with a space in
\* front, in double quotes, and empty.
QueryBatches ==
  {<<queryEntry(title, artist, structured)>> :
     title \in {Str("Song"), Str("My Song"), Str(" Song"), <<Quote, "H", "i", Quote>>, <<>>},
     artist \in {Str("Band"), Str("The Band"), <<Quote>>, <<>>},
     structured \in BOOLEAN}

NextQuery ==
  \/ \E sid \in Sessions, tracks \in QueryBatches : MatchTracksStart(1, sid, tracks)
  \/ \E response \in ShortResponses : PrimaryResponse(1, response)
  \/ \E response \in ShortResponses : FallbackResponse(1, response)
  \/ RequestEnd(1)

SpecQuery == Init /\ [][NextQuery]_vars

(***************************************************************************)
(* calculateSimilarity and levenshteinDistance on their own (specification *)
(* SpecSim)                                                                *)
(***************************************************************************)

\* The longest string compared.
MaxLen == 3

\* The strings compared by calculateSimilarity: every string of up to MaxLen
\* characters out of "a" (a stop-word), "b" and the space, and two with longer
\* stop-words.
SimStrings == SeqsUpTo({"a", "b", " "}, MaxLen) \cup {Str("the"), Str("the b of")}

\* The strings compared by levenshteinDistance.
DistanceStrings == SeqsUpTo({"a", "b"}, MaxLen)

InitSim ==
  /\ simPc \in {"similarity", "distance"}
  /\ IF simPc = "similarity"
       THEN simA \in SimStrings /\ simB \in SimStrings /\ simC = <<>>
       ELSE simA \in DistanceStrings /\ simB \in DistanceStrings /\ simC \in DistanceStrings
  /\ simOut = <<>>
  /\ currentYear = 2026
  /\ SelIdle
  /\ ServerIdle
  /\ ScrapeIdle
  /\ RefreshIdle

\* calculateSimilarity is called on the two strings, both ways round, and on the
\* first string with itself.
CalculateSimilarityCall ==
  /\ simPc = "similarity"
  /\ simOut' = [ab |-> calculateSimilarity(simA, simB),
                ba |-> calculateSimilarity(simB, simA),
                aa |-> calculateSimilarity(simA, simA)]
  /\ simPc' = "returned"
  /\ UNCHANGED <<simA, simB, simC, selVars, currentYear, serverVars, scrapeVars, refreshVars>>

\* levenshteinDistance is called on each pair of the three strings.
LevenshteinDistanceCall ==
  /\ simPc = "distance"
  /\ simOut' = [xy |-> levenshteinDistance(simA, simB),
                yx |-> levenshteinDistance(simB, simA),
                yz |-> levenshteinDistance(simB, simC),
                xz |-> levenshteinDistance(simA, simC)]
  /\ simPc' = "measured"
  /\ UNCHANGED <<simA, simB, simC, selVars, currentYear, serverVars, scrapeVars, refreshVars>>

NextSim == CalculateSimilarityCall \/ LevenshteinDistanceCall

SpecSim == InitSim /\ [][NextSim]_vars

(***************************************************************************)
(* selectBestMatch on the Gotye single and its karaoke version, in every   *)
(* year of a century (specification SpecScenario)                          *)
(***************************************************************************)

\* The first and the last year the clock may show.
FirstYear == 1990
LastYear == 2100

ScenarioTracks ==
  <<[name |-> Str("Somebody That I Used to Know"), artist |-> Str("Gotye"),
     popularity |-> 70, album_type |-> "single", explicit |-> FALSE,
     album_release_date |-> Str("2011-07-05")],
    [name |-> Str("Somebody That I Used To Know - Karaoke Version"),
     artist |-> Str("Karaoke Band"),
     popularity |-> 40, album_type |-> "compilation", explicit |-> FALSE,
     album_release_date |-> Str("2015-01-01")]>>

InitScenario ==
  /\ selTracks = ScenarioTracks
  /\ selTitle = Str("SOMEBODY THAT I USED TO KNOW")
  /\ selArtist = Str("GOTYE")
  /\ currentYear \in FirstYear..LastYear
  /\ selPc = "call"
  /\ selScored = <<>>
  /\ selResult = 0
  /\ ServerIdle
  /\ ScrapeIdle
  /\ SimIdle
  /\ RefreshIdle

SpecScenario == InitScenario /\ [][NextSel]_vars

(***************************************************************************)
(* refreshSpotifyTokenIfNeeded: the middleware in front of every /api      *)
(* route.  Times are in minutes.                                           *)
(***************************************************************************)

\* tokenExpiryTime: 50 * 60 * 1000 ms.
TokenExpiryTime == 50

\* req.session.tokenTimestamp when it is null or was never set.
NullStamp == -1

\* The latest Date.now() a request is served at.
MaxNow == 160

\* A session nobody has logged in to, and a session after the tokens were cleared.
clearedSession ==
  [spotifyAccessToken |-> NoToken, spotifyRefreshToken |-> NoToken,
   tokenTimestamp |-> NullStamp, spotifyUserId |-> "null", spotifyUser |-> "null"]

\* The session as the /callback route stores it at time `now`; the token exchange
\* may or may not have delivered a refresh token.
callbackSession(refreshToken, now) ==
  [spotifyAccessToken |-> "tokenA", spotifyRefreshToken |-> refreshToken,
   tokenTimestamp |-> now, spotifyUserId |-> "user1", spotifyUser |-> "user1"]

\* now - (req.session.tokenTimestamp || 0)
tokenAge(reqSession, now) ==
  now - (IF reqSession.tokenTimestamp = NullStamp THEN 0 ELSE reqSession.tokenTimestamp)

\* The same conditions with the refresh made from the expiry time on.
tokenNeedsRefreshAtExpiry(reqSession, now) ==
  /\ reqSession.spotifyAccessToken # NoToken
  /\ reqSession.spotifyRefreshToken # NoToken
  /\ tokenAge(reqSession, now) >= TokenExpiryTime

\* The two conditions under which the middleware sends the refresh request.
tokenNeedsRefresh(reqSession, now) ==
  /\ reqSession.spotifyAccessToken # NoToken
  /\ reqSession.spotifyRefreshToken # NoToken
  /\ tokenAge(reqSession, now) > TokenExpiryTime

\* What the refresh request can come to: the fetch rejects; the response is ok and
\* its body parses or does not; the response has a failure status.
RefreshOutcomes ==
  {[threw |-> TRUE, ok |-> FALSE, status |-> 0, json |-> "none"],
   [threw |-> FALSE, ok |-> TRUE, status |-> 200, json |-> "tokenR"],
   [threw |-> FALSE, ok |-> TRUE, status |-> 200, json |-> "throws"]}
  \cup {[threw |-> FALSE, ok |-> FALSE, status |-> s, json |-> j] :
          s \in {400, 401, 403, 500}, j \in {"error", "throws"}}

\* The session with every failed refresh clearing the tokens.
sessionAfterRefreshClearOnFailure(reqSession, now, outcome) ==
  IF outcome.threw THEN reqSession
  ELSE IF outcome.ok
    THEN IF outcome.json = "throws" THEN reqSession
         ELSE [reqSession EXCEPT !.spotifyAccessToken = outcome.json,
                              !.tokenTimestamp = now]
    ELSE clearedSession

\* The session when the middleware is through with the refresh response.
sessionAfterRefresh(reqSession, now, outcome) ==
  IF outcome.threw THEN reqSession
  ELSE IF outcome.ok
    THEN IF outcome.json = "throws" THEN reqSession
         ELSE [reqSession EXCEPT !.spotifyAccessToken = outcome.json,
                              !.tokenTimestamp = now]
    ELSE IF outcome.status = 400 \/ outcome.status = 401
      THEN clearedSession
      ELSE reqSession

InitRefresh ==
  /\ rfNow \in {TokenExpiryTime, TokenExpiryTime + 1}
  /\ rfSession \in {clearedSession} \cup {callbackSession(t, 0) : t \in {NoToken, "refreshA"}}
  /\ rfPc = "start"
  /\ rfTrace = <<>>
  /\ currentYear = 2026
  /\ SelIdle
  /\ ServerIdle
  /\ ScrapeIdle
  /\ SimIdle

\* The middleware up to its first await: it sends the refresh request, or it
\* has nothing to refresh and calls next().
RefreshStart ==
  /\ rfPc = "start"
  /\ IF tokenNeedsRefresh(rfSession, rfNow)
       THEN /\ rfTrace' = Append(rfTrace, [op |-> "fetch",
                                           refresh_token |-> rfSession.spotifyRefreshToken])
            /\ rfPc' = "refreshing"
       ELSE /\ rfTrace' = Append(rfTrace, [op |-> "next"])
            /\ rfPc' = "handler"
  /\ UNCHANGED <<rfSession, rfNow, selVars, currentYear, serverVars, scrapeVars, simVars>>

\* The refresh request settles; the middleware updates or clears the session, or
\* leaves it, and calls next().
RefreshResponse(outcome) ==
  /\ rfPc = "refreshing"
  /\ rfSession' = sessionAfterRefresh(rfSession, rfNow, outcome)
  /\ rfTrace' = rfTrace \o <<[op |-> "response", outcome |-> outcome], [op |-> "next"]>>
  /\ rfPc' = "handler"
  /\ UNCHANGED <<rfNow, selVars, currentYear, serverVars, scrapeVars, simVars>>

\* The route has answered; the session's next /api request arrives later.
NextApiRequest(minutes) ==
  /\ rfPc = "handler"
  /\ rfNow + minutes <= MaxNow
  /\ rfNow' = rfNow + minutes
  /\ rfTrace' = <<>>
  /\ rfPc' = "start"
  /\ UNCHANGED <<rfSession, selVars, currentYear, serverVars, scrapeVars, simVars>>

NextRefresh ==
  \/ RefreshStart
  \/ \E outcome \in RefreshOutcomes : RefreshResponse(outcome)
  \/ \E minutes \in {1, TokenExpiryTime} : NextApiRequest(minutes)

\* The middleware runs to its end and the refresh request settles.
SpecRefresh ==
  /\ InitRefresh
  /\ [][NextRefresh]_vars
  /\ WF_vars(RefreshStart)
  /\ WF_vars(\E outcome \in RefreshOutcomes : RefreshResponse(outcome))

(***************************************************************************)
(* Properties of selectBestMatch                                           *)
(***************************************************************************)

\* Comparisons of two scores num / den.
ScoreLess(a, b) == a.num * b.den < b.num * a.den
ScoreEqual(a, b) == a.num * b.den = b.num * a.den
\* a - b >= n
ScoreAheadBy(a, b, n) == a.num * b.den - b.num * a.den >= n * a.den * b.den

Returned == selPc = "returned"
Scored == Returned /\ selScored # <<>>

\* The scoredTracks array lists the candidates in their original order.
ScoredInOrder ==
  /\ Len(selScored) = Len(selTracks)
  /\ \A k \in 1..Len(selScored) :
       selScored[k].index = k - 1 /\ selScored[k].track = selTracks[k]

\* C1: for a candidate list of length >= 2, selectBestMatch returns the index, in
\* the original list, of a candidate whose score is maximal, and among several
\* candidates of maximal score the smallest index.
C1_SelectsFirstMaximal ==
  (Returned /\ selTracks # NoTracks /\ Len(selTracks) >= 2) =>
    /\ ScoredInOrder
    /\ selResult \in 0..(Len(selTracks) - 1)
    /\ \A j \in 1..Len(selScored) :
         ~ScoreLess(selScored[selResult + 1].score, selScored[j].score)
    /\ \A j \in 1..selResult :
         ScoreLess(selScored[j].score, selScored[selResult + 1].score)

\* Two different candidates tie for the best score and the first of them is chosen.
C1_Witness ==
  /\ Returned /\ selTracks # NoTracks /\ Len(selTracks) >= 2
  /\ selTracks[1] # selTracks[2]
  /\ ScoreEqual(selScored[1].score, selScored[2].score)
  /\ selResult = 0

CoverWords == {Cover, Tribute, Karaoke, Instrumental}

HasCoverWord(str) == \E w \in CoverWords : includes(toLowerCase(str), w)

\* C7 as claimed: a candidate's score is reduced by 30 exactly when its name or
\* its artist contains "cover", "tribute", "karaoke" or "instrumental".
C7_CoverPenaltyInEitherField ==
  Scored =>
    \A k \in 1..Len(selScored) :
      (selScored[k].terms.cover = CoverPenalty)
        <=> (HasCoverWord(selTracks[k].name) \/ HasCoverWord(selTracks[k].artist))

\* The candidates of a scored list, by position.
IsExactMatch(k) ==
  /\ toLowerCase(selTracks[k].name) = toLowerCase(selTitle)
  /\ toLowerCase(selTracks[k].artist) = toLowerCase(selArtist)

PenaltyFree(k) == selScored[k].terms.cover = 0 /\ selScored[k].terms.remix = 0

ZeroSimilarity(k) ==
  selScored[k].terms.title.n = 0 /\ selScored[k].terms.artist.n = 0

SameFixedTerms(i, j) ==
  /\ selTracks[i].popularity = selTracks[j].popularity
  /\ selTracks[i].album_type = selTracks[j].album_type
  /\ selTracks[i].explicit = selTracks[j].explicit
  /\ selScored[i].terms.recency = selScored[j].terms.recency

ExactAgainstUnrelated(i, j) ==
  /\ i # j
  /\ IsExactMatch(i) /\ PenaltyFree(i)
  /\ ZeroSimilarity(j) /\ PenaltyFree(j)
  /\ SameFixedTerms(i, j)

\* C8: an exact match without penalty scores at least 35 more than a candidate of
\* zero title and artist similarity that equals it in popularity, album type,
\* explicit flag and recency; of two such candidates the exact match is returned,
\* wherever it stands.
C8_ExactMatchWins ==
  Scored =>
    \A i, j \in 1..Len(selScored) :
      ExactAgainstUnrelated(i, j) =>
        /\ ScoreAheadBy(selScored[i].score, selScored[j].score, TitleWeight + ArtistWeight)
        /\ selResult # j - 1
        /\ Len(selTracks) = 2 => selResult = i - 1

\* The exact match stands second and is returned.
C8_Witness ==
  /\ Scored /\ Len(selTracks) = 2
  /\ ExactAgainstUnrelated(2, 1)
  /\ selResult = 1

NameHasKaraoke(k) == includes(toLowerCase(selTracks[k].name), Karaoke)

SameOtherTerms(i, j) ==
  /\ selScored[i].terms.popularity = selScored[j].terms.popularity
  /\ selScored[i].terms.title.n * selScored[j].terms.title.d
       = selScored[j].terms.title.n * selScored[i].terms.title.d
  /\ selScored[i].terms.artist.n * selScored[j].terms.artist.d
       = selScored[j].terms.artist.n * selScored[i].terms.artist.d
  /\ selScored[i].terms.album = selScored[j].terms.album
  /\ selScored[i].terms.explicit = selScored[j].terms.explicit
  /\ selScored[i].terms.recency = selScored[j].terms.recency

\* The score a candidate had before the penalties were taken off.
PrePenaltyScore(k) ==
  [num |-> selScored[k].score.num
             + (selScored[k].terms.cover + selScored[k].terms.remix) * selScored[k].score.den,
   den |-> selScored[k].score.den]

\* p.score > k's pre-penalty score - 30
BeatsPenalised(p, k) ==
  LET pre == PrePenaltyScore(k)
      s == selScored[p].score
  IN s.num * pre.den > (pre.num - CoverPenalty * pre.den) * s.den

\* C9: a candidate whose name contains "karaoke" scores at least 30 less than a
\* penalty-free candidate with the same other terms, and is never returned when a
\* penalty-free candidate scores more than its pre-penalty score minus 30.
C9_KaraokePenalised ==
  Scored =>
    \A k, p \in 1..Len(selScored) :
      (NameHasKaraoke(k) /\ PenaltyFree(p)) =>
        /\ SameOtherTerms(k, p) =>
             ScoreAheadBy(selScored[p].score, selScored[k].score, CoverPenalty)
        /\ BeatsPenalised(p, k) => selResult # k - 1

\* A karaoke version stands first with the same other terms as a penalty-free
\* candidate behind it, which is returned.
C9_Witness ==
  /\ Scored
  /\ NameHasKaraoke(1) /\ PenaltyFree(2)
  /\ SameOtherTerms(1, 2)
  /\ BeatsPenalised(2, 1)
  /\ selResult = 1

\* C10: for a candidate list of length 0 or 1, or a missing list, selectBestMatch
\* returns 0 and scores nothing.
C10_FastPathReturnsZero ==
  (Returned /\ (selTracks = NoTracks \/ Len(selTracks) <= 1)) =>
    (selResult = 0 /\ selScored = <<>>)

\* A call with exactly one candidate has returned.
C10_Witness ==
  Returned /\ selTracks # NoTracks /\ Len(selTracks) = 1

(***************************************************************************)
(* Properties of the matching of a list of chart entries                   *)
(***************************************************************************)

\* The records built so far by the job in slot r, and the calls made for entry k.
MatchResults(r) == requests[r].matches
CallsOf(r, k) == requests[r].log[k]

\* C2: in every record built by match-tracks or by searchMultipleTracks, a selected
\* index that is not null is a valid index into the record's candidates.
C2_SelectedIndexValid ==
  \A r \in Reqs :
    \A k \in 1..Len(MatchResults(r)) :
      LET m == MatchResults(r)[k]
      IN /\ m.selectedMatch # NullIndex =>
              (0 <= m.selectedMatch /\ m.selectedMatch < Len(m.spotifyMatches))
         /\ m.hasMatch => m.selectedMatch # NullIndex

\* A record with two candidates of which the second one is selected.
C2_Witness ==
  \E r \in Reqs :
    \E k \in 1..Len(MatchResults(r)) :
      /\ Len(MatchResults(r)[k].spotifyMatches) = 2
      /\ MatchResults(r)[k].selectedMatch = 1

\* What searchTracks returned for an entry, read from the calls made for it.
TracksFound(calls) ==
  IF calls = <<>> THEN <<>> ELSE returnedTracks(calls[Len(calls)].response)

SearchFailed(calls) ==
  calls # <<>> /\ calls[Len(calls)].answered /\ ~calls[Len(calls)].response.ok

\* The request was let in (no 401, no 400) and has been answered.
Answered(r) ==
  /\ requests[r].kind = "match-tracks"
  /\ requests[r].pc = "done"
  /\ requests[r].status \notin {400, 401}

\* C3: a request of match-tracks that was let in is answered with one record per
\* entry, in order, and each record is what the entry's own search and selection
\* give, whatever failed for the entries before and behind it.
C3_FailureDoesNotAbortBatch ==
  \A r \in Reqs :
    Answered(r) =>
      /\ requests[r].status = 200
      /\ Len(MatchResults(r)) = Len(requests[r].tracks)
      /\ \A k \in 1..Len(requests[r].tracks) :
           /\ MatchResults(r)[k] =
                matchRecord(requests[r].tracks[k], TracksFound(CallsOf(r, k)), currentYear)
           /\ (Len(TracksFound(CallsOf(r, k))) > 0 /\ requests[r].tracks[k].title # Null) =>
                /\ MatchResults(r)[k].hasMatch
                /\ MatchResults(r)[k].spotifyMatches = TracksFound(CallsOf(r, k))
                /\ MatchResults(r)[k].error = NoError

\* A batch of three: selecting raised an exception for the first entry, the search
\* call of the second failed, and the third has its two candidates and its choice.
C3_Witness ==
  \E r \in Reqs :
    /\ Answered(r)
    /\ Len(requests[r].tracks) = 3
    /\ MatchResults(r)[1].error = TypeErrorMessage
    /\ SearchFailed(CallsOf(r, 2))
    /\ ~MatchResults(r)[2].hasMatch
    /\ MatchResults(r)[3].hasMatch
    /\ Len(MatchResults(r)[3].spotifyMatches) = 2
    /\ MatchResults(r)[3].selectedMatch = 1

\* C4 as claimed: when the search call of an entry fails, the entry's record has
\* hasMatch false, no candidates and an error message.
C4_SearchErrorRecorded ==
  \A r \in Reqs :
    requests[r].kind = "match-tracks" =>
      \A k \in 1..Len(MatchResults(r)) :
        SearchFailed(CallsOf(r, k)) =>
          /\ ~MatchResults(r)[k].hasMatch
          /\ MatchResults(r)[k].spotifyMatches = <<>>
          /\ MatchResults(r)[k].error # NoError

\* C5: the calls made for an entry are the primary call and at most one fallback
\* call behind it; the fallback call is made only when the primary call succeeded
\* with no items, with the same limit, and no call follows a fallback call.
C5_FallbackOnlyAfterEmpty ==
  \A r \in Reqs :
    \A k \in 1..Len(requests[r].log) :
      LET calls == CallsOf(r, k)
      IN /\ Len(calls) <= 2
         /\ Len(calls) >= 1 => calls[1].kind = "primary"
         /\ Len(calls) = 2 =>
              /\ calls[2].kind = "fallback"
              /\ calls[2].limit = calls[1].limit
              /\ calls[1].answered /\ calls[1].response.ok
              /\ Len(calls[1].response.items) = 0
         /\ (Len(calls) >= 1 /\ calls[1].answered
               /\ (~calls[1].response.ok \/ Len(calls[1].response.items) > 0)) =>
              Len(calls) = 1

\* The primary call of a structured query came back empty, the fallback call was
\* made with the simple query and found something; an entry before it was served by
\* its primary call alone.
C5_Witness ==
  \E r \in Reqs :
    \E k, j \in 1..Len(requests[r].log) :
      /\ Len(CallsOf(r, k)) = 2
      /\ CallsOf(r, k)[1].q # CallsOf(r, k)[2].q
      /\ CallsOf(r, k)[2].answered
      /\ Len(CallsOf(r, k)[2].response.items) > 0
      /\ j < k
      /\ Len(CallsOf(r, j)) = 1
      /\ Len(CallsOf(r, j)[1].response.items) > 0
      /\ Len(requests[r].log) > k

\* C6 as claimed: every search made for a request of match-tracks carries the
\* token of the session the request came from.
C6_SearchesUseOwnToken ==
  \A r \in Reqs :
    requests[r].kind = "match-tracks" =>
      \A k \in 1..Len(requests[r].log) :
        \A c \in 1..Len(CallsOf(r, k)) :
          CallsOf(r, k)[c].authorization = requests[r].ownToken

\* Every search made for the entry was answered without error and without items.
SearchedInVain(calls) ==
  /\ calls # <<>>
  /\ \A c \in 1..Len(calls) :
       calls[c].answered /\ calls[c].response.ok /\ Len(calls[c].response.items) = 0

\* C11: in every record of match-tracks, hasMatch is true exactly when there are
\* candidates, the selected index is null exactly when there are none, and an entry
\* whose searches succeeded with nothing found has hasMatch false and no error.
C11_HasMatchIffCandidates ==
  \A r \in Reqs :
    requests[r].kind = "match-tracks" =>
      \A k \in 1..Len(MatchResults(r)) :
        LET m == MatchResults(r)[k]
        IN /\ m.hasMatch <=> Len(m.spotifyMatches) > 0
           /\ m.selectedMatch = NullIndex <=> Len(m.spotifyMatches) = 0
           /\ SearchedInVain(CallsOf(r, k)) => (~m.hasMatch /\ m.error = NoError)

\* The primary call and the fallback call of an entry both came back empty, and
\* another entry of the batch has candidates of which the first one is selected.
C11_Witness ==
  \E r \in Reqs :
    /\ requests[r].kind = "match-tracks"
    /\ \E k, j \in 1..Len(MatchResults(r)) :
         /\ Len(CallsOf(r, k)) = 2
         /\ SearchedInVain(CallsOf(r, k))
         /\ ~MatchResults(r)[k].hasMatch
         /\ MatchResults(r)[j].hasMatch
         /\ MatchResults(r)[j].selectedMatch = 0


\* The query track:"<title>" artist:"<artist>" of a trimmed title and artist.
StructuredQueryOf(title, artist) ==
  TrackPrefix \o trim(title) \o ArtistInfix \o trim(artist) \o <<Quote>>

\* C12: the primary call of every entry of a scraped chart that match-tracks
\* searches carries the structured query of the entry's trimmed title and artist,
\* and a fallback call carries the title and the artist joined by one space.
C12_PrimaryQueryStructured ==
  requests[1].kind = "match-tracks" =>
    \A k \in 1..Len(requests[1].log) :
      \A c \in 1..Len(CallsOf(1, k)) :
        CallsOf(1, k)[c].q =
          IF CallsOf(1, k)[c].kind = "primary"
            THEN StructuredQueryOf(requests[1].tracks[k].title, requests[1].tracks[k].artist)
            ELSE joinQuery(trim(requests[1].tracks[k].title), trim(requests[1].tracks[k].artist))

HasQuote(s) == \E i \in 1..Len(s) : s[i] = Quote

\* C13: when the primary call of an entry carries the structured query of a title
\* and an artist without double quotes and finds nothing, searchTracks sends a
\* fallback call whose query is the title and the artist joined by one space, with
\* no qualifier and no quote.
C13_FallbackQueryIsTitleArtist ==
  \A k \in 1..Len(requests[1].log) :
    LET entry == requests[1].tracks[k]
        calls == CallsOf(1, k)
    IN (/\ calls # <<>>
        /\ calls[1].q = TrackPrefix \o entry.title \o ArtistInfix \o entry.artist \o <<Quote>>
        /\ ~HasQuote(entry.title) /\ ~HasQuote(entry.artist)
        /\ calls[1].answered /\ calls[1].response.ok /\ Len(calls[1].response.items) = 0)
       => /\ Len(calls) = 2
          /\ calls[2].kind = "fallback"
          /\ calls[2].q = entry.title \o <<" ">> \o entry.artist
          /\ ~HasQuote(calls[2].q)

\* The structured query of "Song" and "Band" found nothing, and the fallback
\* call that is out asks for "Song Band".
C13_Witness ==
  /\ requests[1].pc = "fallback"
  /\ CallsOf(1, 1)[1].q = TrackPrefix \o Str("Song") \o ArtistInfix \o Str("Band") \o <<Quote>>
  /\ Len(CallsOf(1, 1)[1].response.items) = 0
  /\ CallsOf(1, 1)[2].q = Str("Song Band")

\* C14: a request of match-tracks from a session without an access token is answered
\* 401 at once: no search call is issued for any entry of its body, and no record
\* is built.
C14_UnauthenticatedBatchAborted ==
  \A r \in Reqs :
    (requests[r].kind = "match-tracks" /\ requests[r].ownToken = NoToken) =>
      /\ requests[r].pc = "done"
      /\ requests[r].status = 401
      /\ requests[r].log = <<>>
      /\ MatchResults(r) = <<>>

\* A session without a token has posted a list of three entries.
C14_Witness ==
  \E r \in Reqs :
    /\ requests[r].kind = "match-tracks"
    /\ session[requests[r].sid] = NoToken
    /\ requests[r].body # NoTracks
    /\ Len(requests[r].body) = 3
    /\ requests[r].status = 401

\* C15: an entry without a title or without an artist has no search call issued
\* for it, neither by match-tracks nor by fetch-more-matches.
C15_MalformedEntryNotSearched ==
  \A r \in Reqs :
    (requests[r].kind \in {"match-tracks", "fetch-more-matches"}
       /\ requests[r].body # NoTracks) =>
      \A k \in 1..Len(requests[r].body) :
        (~truthy(requests[r].body[k].title) \/ ~truthy(requests[r].body[k].artist)) =>
          (k <= Len(requests[r].log) => CallsOf(r, k) = <<>>)

\* The last call made for an entry, once its response is in.
LastCall(calls) == calls[Len(calls)]

\* C16: a request of fetch-more-matches that is let in searches its one entry with
\* the limit 10, which is higher than the limit 5 of match-tracks, and answers with
\* the tracks in the order of the search response and with the position; it builds
\* no record, and its response names no selected index.
C16_FetchMoreReturnsCandidates ==
  \A r \in Reqs :
    requests[r].kind = "fetch-more-matches" =>
      /\ MatchResults(r) = <<>>
      /\ \A k \in 1..Len(requests[r].log) :
           \A c \in 1..Len(CallsOf(r, k)) :
             /\ CallsOf(r, k)[c].limit = 10
             /\ CallsOf(r, k)[c].limit > SearchLimit
             /\ CallsOf(r, k)[c].q \in {requests[r].body[1].searchQuery,
                                        simpleQuery(requests[r].body[1].searchQuery)}
      /\ requests[r].status = 200 =>
           /\ Len(requests[r].log) = 1
           /\ DOMAIN requests[r].response = {"success", "additionalMatches", "position"}
           /\ requests[r].response.position = requests[r].body[1].position
           /\ LET found == requests[r].response.additionalMatches
                  calls == CallsOf(r, 1)
              IN IF calls # <<>> /\ LastCall(calls).response.ok
                   THEN /\ Len(found) = Len(LastCall(calls).response.items)
                        /\ \A j \in 1..Len(found) :
                             found[j].uri = LastCall(calls).response.items[j].uri
                   ELSE found = <<>>

\* A request of fetch-more-matches was answered with two tracks in the order of the
\* search response, of which selectBestMatch would have chosen the second.
C16_Witness ==
  \E r \in Reqs :
    /\ requests[r].kind = "fetch-more-matches"
    /\ requests[r].status = 200
    /\ Len(requests[r].response.additionalMatches) = 2
    /\ requests[r].response.additionalMatches[1].uri = ItemKaraoke.uri
    /\ selectBestMatch(requests[r].response.additionalMatches, requests[r].body[1].title,
                       requests[r].body[1].artist, currentYear) = 1

C18_OneRecordPerEntry ==
  \A r \in Reqs :
    requests[r].kind = "match-tracks" =>
      /\ Len(MatchResults(r)) <= Len(requests[r].tracks)
      /\ \A k \in 1..Len(MatchResults(r)) :
           /\ MatchResults(r)[k].position = requests[r].body[k].position
           /\ MatchResults(r)[k].title = requests[r].body[k].title
           /\ MatchResults(r)[k].artist = requests[r].body[k].artist
           /\ MatchResults(r)[k].searchQuery = requests[r].body[k].searchQuery
           /\ {"spotifyMatches", "selectedMatch", "hasMatch"} \subseteq DOMAIN MatchResults(r)[k]
      /\ requests[r].status = 200 =>
           /\ requests[r].response.matches = MatchResults(r)
           /\ Len(requests[r].response.matches) = Len(requests[r].body)
           /\ requests[r].response.totalTracks = Len(requests[r].body)
           /\ requests[r].response.matchedTracks =
                Cardinality({k \in 1..Len(requests[r].body) :
                               requests[r].response.matches[k].hasMatch})

\* A list of three entries was answered with two of them matched and one not.
C18_Witness ==
  \E r \in Reqs :
    /\ requests[r].kind = "match-tracks"
    /\ requests[r].status = 200
    /\ Len(requests[r].body) = 3
    /\ requests[r].response.matchedTracks = 2
    /\ ~requests[r].response.matches[2].hasMatch

\* C19: the chart that scrapeYearChart returns, whichever approach built it, has
\* positions that are positive integers and ascend strictly from entry to entry, so
\* that no two entries share one.
C19_ChartPositionsAscend ==
  scrPc = "returned" =>
    /\ \A k \in 1..Len(scrChart) : ~scrChart[k].position.nan /\ scrChart[k].position.val >= 1
    /\ \A k \in 1..(Len(scrChart) - 1) :
         scrChart[k].position.val < scrChart[k + 1].position.val

\* The year a release date of the form YYYY-MM-DD starts with.
YearOf(date) ==
  1000 * DigitValue(date[1]) + 100 * DigitValue(date[2]) + 10 * DigitValue(date[3])
    + DigitValue(date[4])

\* The whole-numbered terms of the score of the candidate k, read off its fields.
AlbumTermOf(k) ==
  IF selTracks[k].album_type = "album" THEN 10
  ELSE IF selTracks[k].album_type = "single" THEN 5
  ELSE 0

ExplicitTermOf(k) == IF selTracks[k].explicit = FALSE THEN 5 ELSE 0

RecencyTermOf(k) ==
  IF selTracks[k].album_release_date \in {Null, <<>>} THEN 0
  ELSE IF YearOf(selTracks[k].album_release_date) >= currentYear - 10 THEN 3
  ELSE 0

\* C20: the score of a candidate that neither penalty applies to is its popularity
\* + 20 x title similarity + 15 x artist similarity + 10 for an album or 5 for a
\* single + 5 when it is not explicit + 3 when its release year is at most ten
\* years back (nothing when it has no release date).
C20_ScoreIsSumOfTerms ==
  \A k \in 1..Len(selScored) :
    PenaltyFree(k) =>
      LET ts == selScored[k].terms.title
          as == selScored[k].terms.artist
      IN selScored[k].score.num * (ts.d * as.d) =
           selScored[k].score.den *
             ((selTracks[k].popularity + AlbumTermOf(k) + ExplicitTermOf(k) + RecencyTermOf(k))
                * ts.d * as.d
              + 20 * ts.n * as.d + 15 * as.n * ts.d)

\* Two candidates without a penalty were scored: one released exactly ten years
\* back (3 for recency), and one without a release date.
C20_Witness ==
  /\ Returned
  /\ \E i, j \in 1..Len(selScored) :
       /\ PenaltyFree(i) /\ PenaltyFree(j)
       /\ selTracks[i].album_release_date # Null
       /\ YearOf(selTracks[i].album_release_date) = currentYear - 10
       /\ selScored[i].terms.recency = 3
       /\ selTracks[j].album_release_date = Null

HasRemixWord(str) ==
  \E w \in {Str("party"), Str("dance"), Str("remix"), Str("mix")} :
    includes(toLowerCase(str), w)

\* C21: a candidate's score is reduced by 20 exactly when its name contains "party",
\* "dance", "remix" or "mix" in any case, whether or not the first penalty applies:
\* the score is the sum of the other terms less 30 for the first penalty and less
\* 20 for the second, 50 when both apply.
C21_RemixPenaltyIndependent ==
  Scored =>
    \A k \in 1..Len(selScored) :
      LET ts == selScored[k].terms.title
          as == selScored[k].terms.artist
          remix == IF HasRemixWord(selTracks[k].name) THEN 20 ELSE 0
      IN /\ selScored[k].terms.remix = remix
         /\ selScored[k].score.num * (ts.d * as.d) =
              selScored[k].score.den *
                ((selTracks[k].popularity + AlbumTermOf(k) + ExplicitTermOf(k)
                    + RecencyTermOf(k) - selScored[k].terms.cover - remix) * ts.d * as.d
                 + 20 * ts.n * as.d + 15 * as.n * ts.d)

\* "Song Remix" by "Tribute Band" was scored with both penalties, 50 below the sum
\* of its other terms.
C21_Witness ==
  /\ Scored
  /\ \E k \in 1..Len(selScored) :
       /\ selTracks[k].name = Str("Song Remix")
       /\ selScored[k].terms.cover = 30
       /\ selScored[k].terms.remix = 20
       /\ PrePenaltyScore(k).num * selScored[k].score.den
            = (selScored[k].score.num + 50 * selScored[k].score.den) * PrePenaltyScore(k).den

\* A string as calculateSimilarity compares it: without stop-words, trimmed.
Cleaned(s) == trim(removeStopWords(s))

SimilarityReturned == simPc = "returned"

\* C22: calculateSimilarity(a, b) = calculateSimilarity(b, a) for all strings a
\* and b, also when the two cleaned strings are of the same length.
C22_SimilaritySymmetric ==
  SimilarityReturned =>
    /\ simOut.ab.d > 0 /\ simOut.ba.d > 0
    /\ simOut.ab.n * simOut.ba.d = simOut.ba.n * simOut.ab.d

\* Two different strings of the same cleaned length were compared both ways round,
\* and two of different cleaned lengths would be too.
C22_Witness ==
  /\ SimilarityReturned
  /\ Cleaned(simA) # Cleaned(simB)
  /\ Len(Cleaned(simA)) = Len(Cleaned(simB))
  /\ simOut.ab.n > 0
  /\ simOut.ab.n < simOut.ab.d

\* C23: calculateSimilarity(a, a) = 1.0 for every string a, also when a is empty or
\* made of stop-words only.
C23_SimilarityReflexive ==
  SimilarityReturned => (simOut.aa.d > 0 /\ simOut.aa.n = simOut.aa.d)

\* A string made of stop-words only was compared with itself.
C23_Witness ==
  /\ SimilarityReturned
  /\ simA = Str("a a")
  /\ Cleaned(simA) = <<>>
  /\ simOut.aa.n = simOut.aa.d

\* C24: calculateSimilarity(a, b) lies between 0 and 1 for all strings a and b, so
\* that 20 times it lies between 0 and 20 and 15 times it between 0 and 15.
C24_SimilarityInUnitInterval ==
  SimilarityReturned =>
    \A r \in {simOut.ab, simOut.ba, simOut.aa} :
      /\ r.d > 0
      /\ 0 <= r.n /\ r.n <= r.d
      /\ 0 <= 20 * r.n /\ 20 * r.n <= 20 * r.d
      /\ 0 <= 15 * r.n /\ 15 * r.n <= 15 * r.d

\* Two strings that share no character and differ in length were compared: the
\* distance is the length of the longer one, and the similarity 0.
C24_Witness ==
  /\ SimilarityReturned
  /\ Len(Cleaned(simA)) = 3 /\ Len(Cleaned(simB)) = 1
  /\ simOut.ab.n = 0
  /\ simOut.ab.d = 3

\* The least number of insertions, deletions and substitutions that turn x into y.
RECURSIVE EditDistance(_, _)
EditDistance(x, y) ==
  IF Len(x) = 0 THEN Len(y)
  ELSE IF Len(y) = 0 THEN Len(x)
  ELSE IF Head(x) = Head(y) THEN EditDistance(Tail(x), Tail(y))
  ELSE 1 + Min3(EditDistance(Tail(x), Tail(y)), EditDistance(x, Tail(y)),
                EditDistance(Tail(x), y))

\* C25: levenshteinDistance is the edit distance with insertions, deletions and
\* substitutions at cost 1 each: d(x, z) <= d(x, y) + d(y, z), and d(x, y) = 0
\* exactly when x = y.
C25_LevenshteinIsEditDistance ==
  simPc = "measured" =>
    /\ simOut.xy = EditDistance(simA, simB)
    /\ simOut.yz = EditDistance(simB, simC)
    /\ simOut.xz = EditDistance(simA, simC)
    /\ simOut.xz <= simOut.xy + simOut.yz
    /\ simOut.xy = 0 <=> simA = simB
    /\ simOut.yx = 0 <=> simA = simB

\* Three different strings were measured for which the inequality is an equality
\* with two distances above 0.
C25_Witness ==
  /\ simPc = "measured"
  /\ simA # simB /\ simB # simC /\ simA # simC
  /\ simOut.xy > 0 /\ simOut.yz > 0
  /\ simOut.xz = simOut.xy + simOut.yz

\* C26: for the entry "SOMEBODY THAT I USED TO KNOW" by "GOTYE" and the Gotye single
\* (popularity 70) at index 0 with the karaoke version by "Karaoke Band"
\* (popularity 40) at index 1, selectBestMatch returns 0 whatever the year.
C26_GotyeSingleSelected ==
  (selPc \in {"returned", "again"} /\ selTracks = ScenarioTracks
     /\ selTitle = Str("SOMEBODY THAT I USED TO KNOW") /\ selArtist = Str("GOTYE")) =>
    selResult = 0

\* The call was made in 2024, when the karaoke version alone is within ten years:
\* both candidates were scored, the single at 115 and the karaoke version below it.
C26_Witness ==
  /\ selPc = "returned"
  /\ selTracks = ScenarioTracks
  /\ currentYear = 2024
  /\ Len(selScored) = 2
  /\ selScored[1].terms.recency = 0 /\ selScored[2].terms.recency = 3
  /\ selScored[2].terms.cover = 30
  /\ selScored[1].score.num = 115 * selScored[1].score.den
  /\ selResult = 0

\* C27: every search call that fetch-more-matches makes for an authenticated session
\* carries that session's access token, and the search is not given up for want of
\* a token on the shared object.
C27_SharedObjectCallsUseSessionToken ==
  \A r \in Reqs :
    (requests[r].kind = "fetch-more-matches" /\ requests[r].ownToken # NoToken) =>
      \A k \in 1..Len(requests[r].log) :
        /\ CallsOf(r, k) # <<>>
        /\ \A c \in 1..Len(CallsOf(r, k)) :
             CallsOf(r, k)[c].authorization = requests[r].ownToken

\* The refresh response the middleware has handled in this request.
RefreshOutcome(trace) == trace[Len(trace) - 1].outcome

Refused(outcome) ==
  ~outcome.threw /\ ~outcome.ok /\ outcome.status \in {400, 401}

Refreshed(outcome) ==
  ~outcome.threw /\ outcome.ok /\ outcome.json # "throws"

\* C28: when the refresh is refused with status 400 or 401, the middleware leaves
\* all five session fields null and the route sees no access token; when the
\* refresh fails in any other way (another status, a rejected fetch, a body that
\* cannot be read), the session is left exactly as it was.
C28_RefusalClearsOtherFailuresKeep ==
  [][(rfPc = "refreshing" /\ rfPc' = "handler") =>
       /\ Refused(RefreshOutcome(rfTrace')) =>
            /\ rfSession'.spotifyAccessToken = NoToken
            /\ rfSession'.spotifyRefreshToken = NoToken
            /\ rfSession'.tokenTimestamp = NullStamp
            /\ rfSession'.spotifyUserId = "null"
            /\ rfSession'.spotifyUser = "null"
            /\ notAuthenticated(rfSession'.spotifyAccessToken)
       /\ (~Refused(RefreshOutcome(rfTrace')) /\ ~Refreshed(RefreshOutcome(rfTrace'))) =>
            rfSession' = rfSession]_vars

C28_Witness ==
  /\ rfPc = "handler"
  /\ Len(rfTrace) = 3
  /\ RefreshOutcome(rfTrace).status = 401
  /\ rfSession = clearedSession

\* The entries of the trace with the given operation.
TraceOps(trace, op) == {k \in 1..Len(trace) : trace[k].op = op}

ApproachOrder == <<"json", "puppeteer", "cheerio">>

ApproachChart(page, limit, k) ==
  CASE k = 1 -> extractFromJSONData(page.items, limit)
    [] k = 2 -> scrapeWithPuppeteer(page.texts, limit)
    [] k = 3 -> scrapeWithCheerio(page.elements, limit)

ApproachYields(page, limit, k) ==
  /\ IF k = 3 THEN page.fetches ELSE page.launches
  /\ Len(ApproachChart(page, limit, k)) > 0

\* C30: scrapeYearChart invokes JSON extraction, Puppeteer and Cheerio in this order;
\* it goes on to the next approach only when the ones before it threw or gave an
\* empty list; what it returns is the non-empty list of the last approach it
\* invoked; and it throws 'All scraping methods failed' exactly when it has invoked
\* all three and each threw or gave an empty list.
C30_FirstYieldingApproachWins ==
  scrPc \in {"json", "puppeteer", "cheerio", "returned", "failed"} =>
    LET n == Len(scrTried) IN
    /\ n <= 3
    /\ scrTried = SubSeq(ApproachOrder, 1, n)
    /\ scrPc \in {"json", "puppeteer", "cheerio"} =>
         /\ n < 3
         /\ scrPc = ApproachOrder[n + 1]
         /\ \A k \in 1..n : ~ApproachYields(scrPage, scrLimit, k)
    /\ scrPc = "returned" =>
         /\ n >= 1
         /\ \A k \in 1..(n - 1) : ~ApproachYields(scrPage, scrLimit, k)
         /\ ApproachYields(scrPage, scrLimit, n)
         /\ scrChart = ApproachChart(scrPage, scrLimit, n)
         /\ Len(scrChart) > 0
    /\ scrPc = "failed" =>
         /\ n = 3
         /\ \A k \in 1..3 : ~ApproachYields(scrPage, scrLimit, k)

C30_Witness ==
  /\ scrPc = "returned"
  /\ scrTried = ApproachOrder
  /\ scrPage.launches
  /\ Len(scrChart) > 0
====
